---- MODULE Spec2Model ----
(***************************************************************************)
(* Supplier return-dispute portal: the demo dispute store and its service  *)
(* (src/src/App.tsx), the dashboards' metrics and age distribution         *)
(* (src/src/pages/AdminDashboard.tsx), the table filter                    *)
(* (src/src/components/DisputeTable.tsx), the row normalizer and the       *)
(* clients (src/src/services/Webportal.ts, src/src/services/googleSheets.ts)*)
(* and the Apps Script endpoint (src/google-apps-script-fixed.gs).         *)
(***************************************************************************)
EXTENDS Integers, Sequences, FiniteSets, TLC

VARIABLES
    MOCK_DISPUTES,  \* App.tsx: the module-level demo store, mutated in place
    clock,          \* the wall clock, in ms since 2023-12-31T00:00Z
    call,           \* the operation that produced the current state
    ret,            \* what that operation returned to its caller
    nWrites,        \* createDispute and updateDisputeStatus calls made so far
    disputes,       \* dashboard state: useState<Dispute[]>
    metrics,        \* dashboard render: calculateMetrics(disputes)
    ageData,        \* AdminDashboard render: the age distribution
    daysPassed,     \* DisputeTable render: the "Days Passed" cell of each row
    searchTerm,     \* DisputeTable state: the search box
    statusFilter,   \* DisputeTable state: the status selector
    priorityFilter, \* DisputeTable state: the priority selector
    typeFilter,     \* DisputeTable state: the type selector
    filteredDisputes, \* DisputeTable render: the rows shown
    sheets,         \* the spreadsheet: the rows of each sheet it holds, by name
    response,       \* the JSON the endpoint sent last
    listed,         \* what the last call of a client came to
    row,            \* a raw row handed to a normalizer
    normalized,     \* the record the normalizer made of it
    faultsLeft,     \* store errors the spreadsheet service may still raise
    user,           \* AuthContext state: useState<User | null>
    isLoading,      \* AuthContext state: the session is still being looked up
    markaz_user,    \* localStorage: the stored session
    location,       \* the router's current path
    updatingDisputes, \* DisputeTable state: the ids whose status control is disabled
    outstanding,    \* the onStatusUpdate calls that have not settled yet
    dashLoading,    \* dashboard state: isLoading, useState(true)
    loads,          \* the loadDisputes calls that have not settled yet
    logins          \* the login calls of AuthContext that have not settled yet

storeVars == <<MOCK_DISPUTES, ret, nWrites>>
dashVars == <<disputes, metrics, ageData, daysPassed>>
tableVars == <<searchTerm, statusFilter, priorityFilter, typeFilter, filteredDisputes>>
remoteVars == <<sheets, response, listed, row, normalized, faultsLeft>>
uiVars == <<user, isLoading, markaz_user, location, updatingDisputes, outstanding>>
loadVars == <<dashLoading, loads, logins>>
vars == <<call, clock, storeVars, dashVars, tableVars, remoteVars, uiVars, loadVars>>

(***************************************************************************)
(* Bounds of the model.                                                    *)
(***************************************************************************)
MaxLen == 3             \* longest collection drawn as an input of calculateMetrics
MaxAgeLen == 2          \* longest collection drawn as an input of the age distribution
MaxTableLen == 2        \* longest collection drawn as the rows of the table
MaxRows == 2            \* most data rows a sheet holds
MaxLogRows == 1         \* most rows of login activity
MaxLogins == 2          \* most login calls in flight at once
MaxLoads == 3           \* most loadDisputes calls in flight at once
MaxOutstanding == 2     \* most onStatusUpdate calls in flight at once
MaxFaults == 1          \* most store errors raised in one behaviour of SpecAppend
MaxWrites == 2          \* createDispute and updateDisputeStatus calls in one behaviour
MaxClockDay == 18       \* the clock stops advancing on this day
MaxTickMs == 1          \* ms the clock advances into a day, one at a time

\* A parameter or field that is not given
Undefined == "<undefined>"

BoundedSeq(S, n) == UNION {[1..k -> S] : k \in 0..n}

\* 1000 * 60 * 60 * 24, the divisor of getDaysOld
MsPerDay == 1000 * 60 * 60 * 24

(***************************************************************************)
(* Statuses.  The two schema generations: App.tsx:115 and                  *)
(* googleSheets.ts:470 (which adds Under Review).  "Escalated" stands for  *)
(* a status string no schema knows.                                        *)
(***************************************************************************)
MockStatus == {"Pending", "In Progress", "Resolved", "Rejected", "Fake Signatures", "Paid"}
SheetStatus == MockStatus \cup {"Under Review"}
AnyStatus == SheetStatus \cup {"Escalated"}

(***************************************************************************)
(* The demo store.  A date string 'YYYY-MM-DD' of January 2024 is modelled *)
(* by its day number DD and a timestamp by its day and the ms into it.     *)
(***************************************************************************)
Day(d) == [day |-> d, ms |-> 0]

Mock(id, order, trk, city, partner, name, email, status, upd, reason, sub, sid) ==
    [id |-> id, orderItemId |-> order, trackingId |-> trk, supplierCity |-> city,
     deliveryPartner |-> partner, supplierName |-> name, supplierEmail |-> email,
     status |-> status, lastUpdateDate |-> upd, reason |-> reason,
     submissionDate |-> sub, supplierId |-> sid]

MockData ==
    << Mock("1", "ORD001", "TRK001", "Karachi", "TCS", "Demo Supplier", "supplier@demo",
            "Pending", Day(15), "Damaged item received", Day(10), "SUP001"),
       Mock("2", "ORD002", "TRK002", "Lahore", "Leopards", "Demo Supplier", "supplier@demo",
            "In Progress", Day(14), "Wrong item delivered", Day(8), "SUP001"),
       Mock("3", "ORD003", "TRK003", "Islamabad", "M&P", "Demo Supplier", "supplier@demo",
            "Resolved", Day(12), "Late delivery", Day(5), "SUP001"),
       Mock("4", "ORD004", "TRK004", "Faisalabad", "TCS", "Another Supplier", "another@supplier.com",
            "Rejected", Day(11), "Invalid claim", Day(3), "SUP002"),
       Mock("5", "ORD005", "TRK005", "Multan", "Leopards", "Third Supplier", "third@supplier.com",
            "Pending", Day(16), "Quality issue", Day(15), "SUP003"),
       Mock("6", "ORD006", "TRK006", "Peshawar", "TCS", "Demo Supplier", "supplier@demo",
            "Fake Signatures", Day(13), "Suspicious signature detected", Day(12), "SUP001"),
       Mock("7", "ORD007", "TRK007", "Quetta", "Leopards", "Fourth Supplier", "fourth@supplier.com",
            "Paid", Day(17), "Payment compensation requested", Day(16), "SUP004") >>

\* new Date(dateString).getTime(): 'YYYY-MM-DD' is midnight UTC of that day
DateTime(dateString) == dateString.day * MsPerDay + dateString.ms

\* new Date().toISOString().split('T')[0]
TodayString(t) == Day(t \div MsPerDay)

(***************************************************************************)
(* calculateMetrics: one filter(...).length per status.                    *)
(***************************************************************************)
CountStatus(ds, s) == Len(SelectSeq(ds, LAMBDA d : d.status = s))

calculateMetrics_DropsPaid(ds) ==
    [totalSubmitted      |-> Len(ds),
     totalPending        |-> CountStatus(ds, "Pending"),
     totalResolved       |-> CountStatus(ds, "Resolved"),
     totalInProgress     |-> CountStatus(ds, "In Progress"),
     totalRejected       |-> CountStatus(ds, "Rejected"),
     totalFakeSignatures |-> CountStatus(ds, "Fake Signatures"),
     totalPaid           |-> CountStatus(ds, "Fake Signatures")]

calculateMetrics(ds) ==
    [totalSubmitted      |-> Len(ds),
     totalPending        |-> CountStatus(ds, "Pending"),
     totalResolved       |-> CountStatus(ds, "Resolved"),
     totalInProgress     |-> CountStatus(ds, "In Progress"),
     totalRejected       |-> CountStatus(ds, "Rejected"),
     totalFakeSignatures |-> CountStatus(ds, "Fake Signatures"),
     totalPaid           |-> CountStatus(ds, "Paid")]

NoMetrics == calculateMetrics(<<>>)

(***************************************************************************)
(* Age of a dispute and the age distribution of the pending disputes.      *)
(* Both functions read the clock; t is the instant of the render.          *)
(***************************************************************************)
Abs(x) == IF x < 0 THEN -x ELSE x

\* Math.ceil(a / b) for a >= 0, b > 0
Ceil(a, b) == (a + b - 1) \div b

getDaysOld(dateString, t) ==
    Ceil(Abs(t - DateTime(dateString)), MsPerDay)

getDaysPassedSinceSubmission_Signed(submissionDate, t) ==
    LET d == t - DateTime(submissionDate)
    IN  IF d < 0 THEN -((-d) \div MsPerDay) ELSE Ceil(d, MsPerDay)

getDaysPassedSinceSubmission(submissionDate, t) ==
    Ceil(Abs(t - DateTime(submissionDate)), MsPerDay)

pendingDisputes(ds) == SelectSeq(ds, LAMBDA d : d.status = "Pending")

AgeData_StrictFirst(ds, t) ==
    LET p == pendingDisputes(ds)
        age(d) == getDaysOld(d.submissionDate, t)
    IN  << [days |-> "0-3 days",  count |-> Len(SelectSeq(p, LAMBDA d : age(d) < 3))],
           [days |-> "4-7 days",  count |-> Len(SelectSeq(p, LAMBDA d : age(d) > 3 /\ age(d) <= 7))],
           [days |-> "8-14 days", count |-> Len(SelectSeq(p, LAMBDA d : age(d) > 7 /\ age(d) <= 14))],
           [days |-> "15+ days",  count |-> Len(SelectSeq(p, LAMBDA d : age(d) > 14))] >>

AgeData(ds, t) ==
    LET p == pendingDisputes(ds)
        age(d) == getDaysOld(d.submissionDate, t)
    IN  << [days |-> "0-3 days",  count |-> Len(SelectSeq(p, LAMBDA d : age(d) <= 3))],
           [days |-> "4-7 days",  count |-> Len(SelectSeq(p, LAMBDA d : age(d) > 3 /\ age(d) <= 7))],
           [days |-> "8-14 days", count |-> Len(SelectSeq(p, LAMBDA d : age(d) > 7 /\ age(d) <= 14))],
           [days |-> "15+ days",  count |-> Len(SelectSeq(p, LAMBDA d : age(d) > 14))] >>

\* dispute.Timestamp as a condition: the record has the field
HasTimestamp(d) == "Timestamp" \in DOMAIN d

\* The table's "Days Passed" column, one cell per row
DaysPassedColumn(ds, t) ==
    [i \in 1..Len(ds) |->
        IF HasTimestamp(ds[i]) THEN getDaysPassedSinceSubmission(ds[i].Timestamp, t)
        ELSE "N/A"]

(***************************************************************************)
(* A dashboard render over the current collection.                         *)
(***************************************************************************)
Render ==
    /\ metrics' = calculateMetrics(disputes)
    /\ ageData' = AgeData(disputes, clock)
    /\ daysPassed' = DaysPassedColumn(disputes, clock)
    /\ call' = [op |-> "render"]
    /\ UNCHANGED <<uiVars, loadVars, clock, disputes, storeVars, tableVars, remoteVars>>

\* The first render: useState([]) and nothing computed from data yet
DashInit ==
    /\ metrics = calculateMetrics(<<>>)
    /\ ageData = AgeData(<<>>, 0)
    /\ daysPassed = <<>>
    /\ dashLoading = TRUE
    /\ loads = 0
    /\ logins = <<>>

\* The module-level store as loaded
StoreInit ==
    /\ MOCK_DISPUTES = MockData
    /\ ret = FALSE
    /\ nWrites = 0

\* DisputeTable as mounted: the useState initial values and an empty table
TableInit ==
    /\ searchTerm = <<>>
    /\ statusFilter = "all"
    /\ priorityFilter = "all"
    /\ typeFilter = "all"
    /\ filteredDisputes = <<>>

(***************************************************************************)
(* AuthContext.tsx and the routes of App.tsx.                              *)
(***************************************************************************)
\* user: User | null
NoUser == [t |-> "null"]

DEMO_USERS ==
    <<[id |-> "1", email |-> "admin@demo", password |-> "Passw0rd!", role |-> "admin",
       supplierName |-> "Admin User"],
      [id |-> "2", email |-> "supplier@demo", password |-> "Passw0rd!", role |-> "supplier",
       supplierName |-> "Demo Supplier", supplierId |-> "SUP001"]>>

\* const { password: _, ...userWithoutPassword } = demoUser
WithoutPassword_KeepsPassword(u) == u

WithoutPassword(u) == [k \in DOMAIN u \ {"password"} |-> u[k]]

\* user?.role
RoleOf(u) == IF "role" \in DOMAIN u THEN u.role ELSE Undefined

\* !!user
isAuthenticated(u) == u # NoUser

\* user?.role === 'admin' ? '/admin' : '/supplier'
Home(u) == IF RoleOf(u) = "admin" THEN "/admin" ELSE "/supplier"

Navigate(to) == [element |-> "Navigate", to |-> to]
Page(name) == [element |-> name]

\* ProtectedRoute without the comparison of the user's role
ProtectedRoute_NoRoleCheck(children, requiredRole, u, loading) ==
    IF loading THEN Page("Spinner")
    ELSE IF ~isAuthenticated(u) THEN Navigate("/login")
    ELSE Page(children)

ProtectedRoute(children, requiredRole, u, loading) ==
    IF loading THEN Page("Spinner")
    ELSE IF ~isAuthenticated(u) THEN Navigate("/login")
    ELSE IF requiredRole # Undefined /\ RoleOf(u) # requiredRole THEN Navigate(Home(u))
    ELSE Page(children)

\* The element the routes render at a path
AppRoutes(path, u, loading) ==
    CASE path = "/login" ->
            IF isAuthenticated(u) THEN Navigate(Home(u)) ELSE Page("LoginPage")
      [] path = "/supplier" -> ProtectedRoute("SupplierDashboard", "supplier", u, loading)
      [] path = "/admin" -> ProtectedRoute("AdminDashboard", "admin", u, loading)
      [] path = "/" -> Navigate(IF isAuthenticated(u) THEN Home(u) ELSE "/login")
      [] OTHER -> Page("NotFound")

Dashboards == {"AdminDashboard", "SupplierDashboard"}

\* The administrator's dashboard open, no status update under way
UiInit ==
    /\ user = WithoutPassword(DEMO_USERS[1])
    /\ isLoading = FALSE
    /\ markaz_user = WithoutPassword(DEMO_USERS[1])
    /\ location = "/admin"
    /\ updatingDisputes = {}
    /\ outstanding = <<>>

\* The header row of the Supplierview and Adminportal sheets
SheetHeaders == <<"Timestamp", "OrderItemID", "TrackingID", "Supplier", "SupplierEmail",
                  "SupplierID", "ReasonforDispute", "Priority", "Status">>

\* The header row of the Newform sheet: its own order, a header that names a
\* field of the dispute data, one that differs from a field in case only, and
\* one that maps to no field
NewformHeaders == <<"OrderItemID", "TrackingID", "Supplier", "supplierCity", "PRIORITY",
                    "Notes", "Status", "Timestamp">>

DestinationSheets == <<"Supplierview", "Newform", "Adminportal">>

\* The spreadsheet with all three dispute sheets, no dispute filed yet
AllSheets ==
    [Supplierview |-> <<SheetHeaders>>, Newform |-> <<NewformHeaders>>,
     Adminportal |-> <<SheetHeaders>>]

\* The spreadsheet without its Newform sheet
WithoutNewform == [Supplierview |-> <<SheetHeaders>>, Adminportal |-> <<SheetHeaders>>]

\* Nothing requested yet: sheets without data rows, no response, no list result
RemoteInit ==
    /\ sheets = AllSheets
    /\ faultsLeft = 0
    /\ response = [t |-> "none"]
    /\ listed = [kind |-> "none"]
    /\ row = <<>>
    /\ normalized = [kind |-> "none"]

(***************************************************************************)
(* SpecMetrics: calculateMetrics over every collection of at most MaxLen   *)
(* records of any status, and over the built-in collection.                *)
(***************************************************************************)
WithStatus(s) == [MockData[1] EXCEPT !.status = s]

MetricsInputs == BoundedSeq({WithStatus(s) : s \in AnyStatus}, MaxLen) \cup {MockData}

InitMetrics ==
    /\ StoreInit
    /\ UiInit
    /\ RemoteInit
    /\ TableInit
    /\ clock = 17 * MsPerDay
    /\ call = [op |-> "init"]
    /\ disputes \in MetricsInputs
    /\ DashInit

NextMetrics == Render

SpecMetrics == InitMetrics /\ [][NextMetrics]_vars

(***************************************************************************)
(* SpecAge: the age distribution and the days-passed column over every     *)
(* collection of at most MaxAgeLen records, at several instants.           *)
(***************************************************************************)
AgeDays == {4, 5, 6, 12, 13, 16, 17, 19, 20, 21}

\* A record of both schema generations: submitted on day d, in status s
Submitted(s, d) ==
    [id |-> "1", status |-> s, submissionDate |-> Day(d), Status |-> s, Timestamp |-> Day(d)]

AgeInputs ==
    BoundedSeq({Submitted(s, d) : s \in {"Pending", "Resolved"}, d \in AgeDays}
               \cup {[MockData[1] EXCEPT !.submissionDate = Day(19)]}, MaxAgeLen)

AgeClocks == {20 * MsPerDay, 20 * MsPerDay + 1, 20 * MsPerDay + 30 * 60 * 1000,
              21 * MsPerDay - 1}

InitAge ==
    /\ StoreInit
    /\ UiInit
    /\ RemoteInit
    /\ TableInit
    /\ clock \in AgeClocks
    /\ call = [op |-> "init"]
    /\ disputes \in AgeInputs
    /\ DashInit

NextAge == Render

SpecAge == InitAge /\ [][NextAge]_vars

(***************************************************************************)
(* The demo service over the store (App.tsx GoogleSheetsService, demo      *)
(* mode), the sheets service's stub of updateDisputeStatus, and the clock. *)
(***************************************************************************)
\* if (supplierId): neither undefined nor the empty string
Truthy(v) == v # Undefined /\ v # ""

getDisputes(store, supplierId) ==
    IF Truthy(supplierId)
    THEN SelectSeq(store, LAMBDA d : d.supplierId = supplierId)
    ELSE store

\* findIndex: the first index whose record has the id, 0 for -1
FindIndex(store, disputeId) ==
    LET hits == {i \in 1..Len(store) : store[i].id = disputeId}
    IN  IF hits = {} THEN 0 ELSE CHOOSE i \in hits : \A j \in hits : i <= j

updateDisputeStatus_TouchesSubmissionDate(store, disputeId, status, t) ==
    LET disputeIndex == FindIndex(store, disputeId)
    IN  IF disputeIndex # 0
        THEN [store |-> [store EXCEPT ![disputeIndex].status = status,
                                      ![disputeIndex].submissionDate = TodayString(t),
                                      ![disputeIndex].lastUpdateDate = TodayString(t)],
              ret |-> TRUE]
        ELSE [store |-> store, ret |-> FALSE]

updateDisputeStatus(store, disputeId, status, t) ==
    LET disputeIndex == FindIndex(store, disputeId)
    IN  IF disputeIndex # 0
        THEN [store |-> [store EXCEPT ![disputeIndex].status = status,
                                      ![disputeIndex].lastUpdateDate = TodayString(t)],
              ret |-> TRUE]
        ELSE [store |-> store, ret |-> FALSE]

createDispute_StaleLastUpdate(store, dispute, t) ==
    LET newDispute ==
            [dispute EXCEPT !.id = "DISP" \o ToString(t),
                            !.submissionDate = TodayString(t),
                            !.lastUpdateDate = Day(1),
                            !.status = "Pending"]
    IN  [store |-> <<newDispute>> \o store, ret |-> TRUE]

\* {...dispute, id, submissionDate, lastUpdateDate, status: 'Pending'}, unshifted
createDispute(store, dispute, t) ==
    LET newDispute ==
            [dispute EXCEPT !.id = "DISP" \o ToString(t),
                            !.submissionDate = TodayString(t),
                            !.lastUpdateDate = TodayString(t),
                            !.status = "Pending"]
    IN  [store |-> <<newDispute>> \o store, ret |-> TRUE]

\* The owner filters a caller passes: none, the empty string, supplier ids
\* and supplier emails of records and of no record
OwnerFilters ==
    {Undefined, "", "SUP001", "SUP003", "SUP999", "supplier@demo", "third@supplier.com"}

\* The identifiers a caller passes: of built-in records, of a created
\* record, of no record, and the row key the table builds (supplierId + index)
UpdateIds(store) ==
    {"1", "7", "999", "SUP0010"} \cup {store[1].id}

UpdateStatuses == {"Pending", "Resolved", "Under Review"}

\* What a caller of createDispute passes (Webportal.ts:124, and
\* SupplierDashboard.tsx:79 for the form of unnamed/part_003:212)
CreatePayloads ==
    { Mock(Undefined, "ORD100", "TRK100", "", "", "Demo Supplier", "supplier@demo",
           Undefined, Undefined, Undefined, Undefined, "SUP001"),
      Mock(Undefined, "ORD200", "TRK200", "Not specified", "TBD", "", "",
           "Pending", Undefined, "Missing parcel", Undefined, Undefined) }

GetDisputes ==
    \E supplierId \in OwnerFilters :
        /\ ret' = getDisputes(MOCK_DISPUTES, supplierId)
        /\ call' = [op |-> "getDisputes", supplierId |-> supplierId]
        /\ UNCHANGED <<uiVars, loadVars, MOCK_DISPUTES, clock, nWrites, dashVars, tableVars, remoteVars>>

UpdateDisputeStatus ==
    \E disputeId \in UpdateIds(MOCK_DISPUTES), status \in UpdateStatuses :
        LET r == updateDisputeStatus(MOCK_DISPUTES, disputeId, status, clock)
        IN  /\ nWrites < MaxWrites
            /\ nWrites' = nWrites + 1
            /\ MOCK_DISPUTES' = r.store
            /\ ret' = r.ret
            /\ call' = [op |-> "updateDisputeStatus", impl |-> "demo",
                        disputeId |-> disputeId, status |-> status]
            /\ UNCHANGED <<uiVars, loadVars, clock, dashVars, tableVars, remoteVars>>

\* googleSheets.ts:509: logs and returns true
UpdateDisputeStatusSheets ==
    \E disputeId \in UpdateIds(MOCK_DISPUTES), newStatus \in UpdateStatuses :
        /\ nWrites < MaxWrites
        /\ nWrites' = nWrites + 1
        /\ ret' = TRUE
        /\ call' = [op |-> "updateDisputeStatus", impl |-> "sheets",
                    disputeId |-> disputeId, status |-> newStatus]
        /\ UNCHANGED <<uiVars, loadVars, MOCK_DISPUTES, clock, dashVars, tableVars, remoteVars>>

CreateDispute ==
    \E dispute \in CreatePayloads :
        LET r == createDispute(MOCK_DISPUTES, dispute, clock)
        IN  /\ nWrites < MaxWrites
            /\ nWrites' = nWrites + 1
            /\ MOCK_DISPUTES' = r.store
            /\ ret' = r.ret
            /\ call' = [op |-> "createDispute", dispute |-> dispute]
            /\ UNCHANGED <<uiVars, loadVars, clock, dashVars, tableVars, remoteVars>>

Tick ==
    /\ \/ /\ clock % MsPerDay < MaxTickMs
          /\ clock' = clock + 1
       \/ /\ clock \div MsPerDay < MaxClockDay
          /\ clock' = (clock \div MsPerDay + 1) * MsPerDay
    /\ call' = [op |-> "tick"]
    /\ UNCHANGED <<uiVars, loadVars, storeVars, dashVars, tableVars, remoteVars>>

\* The module is loaded with the built-in data, on the day of the latest
\* built-in date
Init ==
    /\ StoreInit
    /\ UiInit
    /\ RemoteInit
    /\ TableInit
    /\ clock = 17 * MsPerDay
    /\ call = [op |-> "init"]
    /\ disputes = <<>>
    /\ DashInit

Next ==
    \/ GetDisputes
    \/ UpdateDisputeStatus
    \/ UpdateDisputeStatusSheets
    \/ CreateDispute
    \/ Tick

Spec == Init /\ [][Next]_vars


(***************************************************************************)
(* JavaScript values where the code works on their content: a string is    *)
(* the sequence of its characters; undefined and null are values of their  *)
(* own.  Property names and the endpoint's messages are never taken apart  *)
(* by the code and stay strings.                                           *)
(***************************************************************************)
Undef == [t |-> "undefined"]
Null == [t |-> "null"]
Str(chars) == [t |-> "string", s |-> chars]
Num(n) == [t |-> "number", n |-> n]

IsNullish(v) == v.t \in {"undefined", "null"}

\* The values JavaScript takes for false in a condition
IsFalsy(v) ==
    \/ IsNullish(v)
    \/ v.t = "string" /\ v.s = <<>>
    \/ v.t = "number" /\ v.n = 0

\* a || b
Or(a, b) == IF IsFalsy(a) THEN b ELSE a

UpperLetters == <<"A", "B", "C", "D", "E", "F", "G", "H", "I", "J", "K", "L", "M",
                  "N", "O", "P", "Q", "R", "S", "T", "U", "V", "W", "X", "Y", "Z">>
LowerLetters == <<"a", "b", "c", "d", "e", "f", "g", "h", "i", "j", "k", "l", "m",
                  "n", "o", "p", "q", "r", "s", "t", "u", "v", "w", "x", "y", "z">>
Digits == <<"0", "1", "2", "3", "4", "5", "6", "7", "8", "9">>
Range(f) == {f[i] : i \in DOMAIN f}
Letters == Range(UpperLetters) \cup Range(LowerLetters)
Whitespace == {" ", "\t", "\n"}

LowerChar(c) ==
    IF c \in Range(UpperLetters)
    THEN LowerLetters[CHOOSE i \in DOMAIN UpperLetters : UpperLetters[i] = c]
    ELSE c

\* String.prototype.toLowerCase
toLowerCase(chars) == [i \in 1..Len(chars) |-> LowerChar(chars[i])]

\* String.prototype.includes
includes(chars, search) ==
    \E i \in 0..(Len(chars) - Len(search)) :
        SubSeq(chars, i + 1, i + Len(search)) = search

SetMin(S) == CHOOSE x \in S : \A y \in S : x <= y
SetMax(S) == CHOOSE x \in S : \A y \in S : x >= y

\* String.prototype.trim
trim(chars) ==
    LET kept == {i \in 1..Len(chars) : chars[i] \notin Whitespace}
    IN  IF kept = {} THEN <<>> ELSE SubSeq(chars, SetMin(kept), SetMax(kept))

RECURSIVE NumberToChars(_)
NumberToChars(n) ==
    IF n < 10 THEN <<Digits[n + 1]>>
    ELSE Append(NumberToChars(n \div 10), Digits[(n % 10) + 1])

\* String(v) and v.toString(), on the values of the model
ToChars(v) ==
    CASE v.t = "string" -> v.s
      [] v.t = "number" -> NumberToChars(v.n)
      [] v.t = "undefined" -> <<"u", "n", "d", "e", "f", "i", "n", "e", "d">>
      [] v.t = "null" -> <<"n", "u", "l", "l">>

\* v?.toLowerCase().includes(term.toLowerCase()), as the condition it is used as:
\* undefined (falsy) when v is undefined or null
OptionalIncludes(v, term) ==
    IF IsNullish(v) THEN FALSE ELSE includes(toLowerCase(v.s), toLowerCase(term))

(***************************************************************************)
(* DisputeTable: the rows shown are the disputes that pass the search box  *)
(* and the three selectors.                                                *)
(***************************************************************************)
matchesSearch_TrackingForSupplierId(dispute, term) ==
    \/ OptionalIncludes(dispute.orderNumber, term)
    \/ OptionalIncludes(dispute.trackingId, term)
    \/ OptionalIncludes(dispute.supplierName, term)
    \/ OptionalIncludes(dispute.supplierEmail, term)
    \/ OptionalIncludes(dispute.disputeDescription, term)

matchesSearch(dispute, term) ==
    \/ OptionalIncludes(dispute.orderNumber, term)
    \/ OptionalIncludes(dispute.supplierName, term)
    \/ OptionalIncludes(dispute.supplierEmail, term)
    \/ OptionalIncludes(dispute.supplierId, term)
    \/ OptionalIncludes(dispute.disputeDescription, term)

FilteredDisputes(ds, term, status, priority, type) ==
    SelectSeq(ds, LAMBDA dispute :
        LET matchesStatus == status = "all" \/ dispute.Status = status
            matchesPriority == priority = "all" \/ dispute.priority = priority
            matchesType == type = "all" \/ dispute.disputeType = type
        IN  matchesSearch(dispute, term) /\ matchesStatus /\ matchesPriority /\ matchesType)

\* Array.from(new Set(disputes.map(d => d.priority).filter(Boolean)))
uniquePriorities(ds) == {ds[i].priority : i \in 1..Len(ds)} \ {Undefined, ""}

uniqueTypes(ds) == {ds[i].disputeType : i \in 1..Len(ds)} \ {Undefined, ""}

\* The options of the status selector (DisputeTable.tsx:252)
StatusOptions == {"all", "Pending", "In Progress", "Resolved", "Rejected", "Under Review"}

\* The element rendered now, and whether it holds the table
Rendered == AppRoutes(location, user, isLoading)
TableMounted == Rendered.element \in Dashboards

\* What is typed into the search box
SearchTerms == {<<>>, <<"a">>, <<"A", "b">>, <<"b">>, <<"x">>}

SetSearchTerm ==
    \E value \in SearchTerms :
        /\ TableMounted
        /\ searchTerm' = value
        /\ filteredDisputes' =
              FilteredDisputes(disputes, value, statusFilter, priorityFilter, typeFilter)
        /\ call' = [op |-> "setSearchTerm"]
        /\ UNCHANGED <<uiVars, loadVars, clock, storeVars, dashVars, remoteVars, statusFilter, priorityFilter, typeFilter>>

SetStatusFilter ==
    \E value \in StatusOptions :
        /\ TableMounted
        /\ statusFilter' = value
        /\ filteredDisputes' =
              FilteredDisputes(disputes, searchTerm, value, priorityFilter, typeFilter)
        /\ call' = [op |-> "setStatusFilter"]
        /\ UNCHANGED <<uiVars, loadVars, clock, storeVars, dashVars, remoteVars, searchTerm, priorityFilter, typeFilter>>

SetPriorityFilter ==
    \E value \in {"all"} \cup uniquePriorities(disputes) :
        /\ TableMounted
        /\ priorityFilter' = value
        /\ filteredDisputes' =
              FilteredDisputes(disputes, searchTerm, statusFilter, value, typeFilter)
        /\ call' = [op |-> "setPriorityFilter"]
        /\ UNCHANGED <<uiVars, loadVars, clock, storeVars, dashVars, remoteVars, searchTerm, statusFilter, typeFilter>>

SetTypeFilter ==
    \E value \in {"all"} \cup uniqueTypes(disputes) :
        /\ TableMounted
        /\ typeFilter' = value
        /\ filteredDisputes' =
              FilteredDisputes(disputes, searchTerm, statusFilter, priorityFilter, value)
        /\ call' = [op |-> "setTypeFilter"]
        /\ UNCHANGED <<uiVars, loadVars, clock, storeVars, dashVars, remoteVars, searchTerm, statusFilter, priorityFilter>>

(***************************************************************************)
(* SpecFilter: the table over every collection of at most MaxTableLen rows *)
(* of TableRows, under every setting of the search box and the selectors.  *)
(***************************************************************************)
TableRow(order, trk, name, email, sid, desc, type, priority, status) ==
    [orderNumber |-> order, trackingId |-> trk, supplierName |-> name,
     supplierEmail |-> email, supplierId |-> sid, disputeDescription |-> desc,
     disputeType |-> type, priority |-> priority, Status |-> status]

TableRows ==
    { TableRow(Str(<<"A", "b">>), Str(<<"x">>), Str(<<"b">>), Str(<<"a">>), Str(<<"s">>),
               Str(<<>>), "Damage", "High", "Pending"),
      TableRow(Undef, Undef, Undef, Undef, Undef, Undef, Undefined, "Medium", "Resolved"),
      TableRow(Str(<<>>), Str(<<>>), Str(<<>>), Str(<<>>), Str(<<>>), Str(<<>>),
               "Late", "High", "Under Review"),
      TableRow(Undef, Str(<<"a", "b">>), Str(<<>>), Undef, Undef, Undef,
               "Damage", "Low", "Pending"),
      TableRow(Undef, Undef, Undef, Undef, Str(<<"A", "B">>), Undef,
               "Late", "Medium", "In Progress"),
      TableRow(Undef, Undef, Str(<<"c">>), Str(<<"c">>), Undef, Str(<<"b", "A">>),
               "Damage", Undefined, "Rejected") }

InitFilter ==
    /\ StoreInit
    /\ UiInit
    /\ RemoteInit
    /\ DashInit
    /\ clock = 17 * MsPerDay
    /\ call = [op |-> "init"]
    /\ disputes \in BoundedSeq(TableRows, MaxTableLen)
    /\ searchTerm = <<>>
    /\ statusFilter = "all"
    /\ priorityFilter = "all"
    /\ typeFilter = "all"
    /\ filteredDisputes = FilteredDisputes(disputes, <<>>, "all", "all", "all")

NextFilter ==
    \/ SetSearchTerm
    \/ SetStatusFilter
    \/ SetPriorityFilter
    \/ SetTypeFilter

SpecFilter == InitFilter /\ [][NextFilter]_vars

(***************************************************************************)
(* The status control of a table row (DisputeTable.tsx:171-196, 384-412),  *)
(* the session (AuthContext.tsx) and the routes (App.tsx), with the calls  *)
(* of onStatusUpdate in flight.                                            *)
(***************************************************************************)
NaN == [t |-> "number", n |-> "NaN"]

\* dispute.supplierId + index
RowId(dispute, index) ==
    IF dispute.supplierId = Undef THEN NaN
    ELSE Str(ToChars(dispute.supplierId) \o NumberToChars(index))

\* isAdmin, as the dashboards pass it
isAdmin == Rendered.element = "AdminDashboard"

\* The status picked in the control
StatusChoices == {"Resolved"}

\* The lists the service returns to a dashboard
LoadedDisputes ==
    LET first == TableRow(Str(<<"A", "b">>), Undef, Str(<<"b">>), Str(<<"a">>), Str(<<"s">>),
                          Str(<<>>), "Damage", "High", "Pending")
        second == TableRow(Str(<<"x">>), Undef, Str(<<"c">>), Str(<<"a">>), Str(<<"s">>),
                           Str(<<>>), "Damage", "High", "Resolved")
    IN  {<<first, second>>, <<second>>}

\* The table is unmounted, and mounted anew if a dashboard is rendered next:
\* its state starts over and the calls in flight belong to a table that is gone
Remount ==
    /\ searchTerm' = <<>>
    /\ statusFilter' = "all"
    /\ priorityFilter' = "all"
    /\ typeFilter' = "all"
    /\ updatingDisputes' = {}
    /\ filteredDisputes' =
          IF AppRoutes(location', user', isLoading').element \in Dashboards
          THEN FilteredDisputes(disputes, <<>>, "all", "all", "all")
          ELSE <<>>
    /\ outstanding' = [i \in 1..Len(outstanding) |-> [outstanding[i] EXCEPT !.live = FALSE]]

\* What a change of session or path does to the table
Rerender ==
    IF AppRoutes(location', user', isLoading') = Rendered
    THEN UNCHANGED <<tableVars, updatingDisputes, outstanding>>
    ELSE Remount

\* AuthProvider's effect: the stored session, if any, becomes the user
RestoreSession ==
    /\ isLoading
    /\ user' = IF markaz_user # NoUser THEN markaz_user ELSE user
    /\ isLoading' = FALSE
    /\ call' = [op |-> "restoreSession"]
    /\ UNCHANGED <<loadVars, clock, storeVars, dashVars, remoteVars, markaz_user, location>>
    /\ Rerender

\* What is typed into the login form
Credentials ==
    {[email |-> "admin@demo", password |-> "Passw0rd!"],
     [email |-> "supplier@demo", password |-> "Passw0rd!"],
     [email |-> "admin@demo", password |-> "passw0rd!"]}

\* login of AuthContext, from the login page
Login ==
    \E c \in Credentials :
        LET found == {i \in 1..Len(DEMO_USERS) :
                        DEMO_USERS[i].email = c.email /\ DEMO_USERS[i].password = c.password}
        IN  /\ Rendered.element = "LoginPage"
            /\ user' = IF found = {} THEN user
                        ELSE WithoutPassword(DEMO_USERS[CHOOSE i \in found : \A j \in found : i <= j])
            /\ markaz_user' = IF found = {} THEN markaz_user ELSE user'
            /\ call' = [op |-> "login", email |-> c.email, ok |-> found # {}]
            /\ UNCHANGED <<loadVars, clock, storeVars, dashVars, remoteVars, isLoading, location>>
            /\ Rerender

\* logout of AuthContext, from a dashboard
Logout ==
    /\ TableMounted
    /\ user' = NoUser
    /\ markaz_user' = NoUser
    /\ call' = [op |-> "logout"]
    /\ UNCHANGED <<loadVars, clock, storeVars, dashVars, remoteVars, isLoading, location>>
    /\ Rerender

\* A rendered <Navigate> replaces the path
FollowNavigate ==
    /\ Rendered.element = "Navigate"
    /\ location' = Rendered.to
    /\ call' = [op |-> "navigate", to |-> Rendered.to]
    /\ UNCHANGED <<loadVars, clock, storeVars, dashVars, remoteVars, user, isLoading, markaz_user>>
    /\ Rerender

Paths == {"/", "/login", "/admin", "/supplier"}

\* The browser opens the application at a path: the session is looked up
\* anew, and no callback of the page before is left
Open ==
    \E path \in Paths :
        /\ location' = path
        /\ user' = NoUser
        /\ isLoading' = TRUE
        /\ searchTerm' = <<>>
        /\ statusFilter' = "all"
        /\ priorityFilter' = "all"
        /\ typeFilter' = "all"
        /\ filteredDisputes' = <<>>
        /\ updatingDisputes' = {}
        /\ outstanding' = <<>>
        /\ call' = [op |-> "open", path |-> path]
        /\ UNCHANGED <<loadVars, clock, storeVars, dashVars, remoteVars, markaz_user>>

\* The refresh button of the table: loadDisputes of the dashboard
LoadDisputes ==
    \E data \in LoadedDisputes :
        /\ TableMounted
        /\ disputes' = data
        /\ filteredDisputes' =
              FilteredDisputes(data, searchTerm, statusFilter, priorityFilter, typeFilter)
        /\ call' = [op |-> "loadDisputes"]
        /\ UNCHANGED <<loadVars, clock, storeVars, remoteVars, uiVars, metrics, ageData, daysPassed,
                       searchTerm, statusFilter, priorityFilter, typeFilter>>

\* handleStatusChange up to its await: the control of a row is rendered for
\* an administrator, and takes a value while it is not disabled
HandleStatusChange ==
    \E index \in 1..Len(filteredDisputes), newStatus \in StatusChoices :
        LET dispute == filteredDisputes[index]
            disputeId == RowId(dispute, index - 1)
        IN  /\ TableMounted
            /\ isAdmin
            /\ disputeId \notin updatingDisputes
            /\ Len(outstanding) < MaxOutstanding
            /\ updatingDisputes' = updatingDisputes \cup {disputeId}
            /\ outstanding' = Append(outstanding,
                                     [disputeId |-> disputeId, newStatus |-> newStatus,
                                      dispute |-> dispute, live |-> TRUE])
            /\ call' = [op |-> "handleStatusChange", disputeId |-> disputeId,
                        role |-> RoleOf(user)]
            /\ UNCHANGED <<loadVars, clock, storeVars, dashVars, tableVars, remoteVars, user, isLoading,
                           markaz_user, location>>

\* A call of onStatusUpdate settles: handleStatusUpdate of the dashboard has
\* reloaded the disputes if the update went through, and the finally block
\* of handleStatusChange enables the control of that id again; the state of
\* a table that is gone is not touched
StatusUpdateSettles ==
    \E i \in 1..Len(outstanding), ok \in BOOLEAN, data \in LoadedDisputes :
        LET settled == outstanding[i]
            reloaded == IF ok THEN data ELSE disputes
        IN  /\ outstanding' = SubSeq(outstanding, 1, i - 1)
                                 \o SubSeq(outstanding, i + 1, Len(outstanding))
            /\ IF settled.live
               THEN /\ updatingDisputes' = updatingDisputes \ {settled.disputeId}
                    /\ disputes' = reloaded
                    /\ filteredDisputes' =
                          FilteredDisputes(reloaded, searchTerm, statusFilter, priorityFilter,
                                           typeFilter)
               ELSE UNCHANGED <<updatingDisputes, disputes, filteredDisputes>>
            /\ call' = [op |-> "statusUpdateSettles", disputeId |-> settled.disputeId, ok |-> ok]
            /\ UNCHANGED <<loadVars, clock, storeVars, remoteVars, metrics, ageData, daysPassed,
                           searchTerm, statusFilter, priorityFilter, typeFilter, user,
                           isLoading, markaz_user, location>>

(***************************************************************************)
(* SpecUi: the application opened at any path with any stored session,     *)
(* under every order of logins, logouts, changes of the status selector,   *)
(* reloads, status changes and settlements.                                *)
(***************************************************************************)
\* What localStorage may hold: nothing, a demo user, a user without a role
StoredUsers ==
    {NoUser, WithoutPassword(DEMO_USERS[1]), WithoutPassword(DEMO_USERS[2]),
     [id |-> "3", email |-> "x@demo"]}

InitUi ==
    /\ StoreInit
    /\ RemoteInit
    /\ DashInit
    /\ TableInit
    /\ clock = 17 * MsPerDay
    /\ call = [op |-> "init"]
    /\ disputes \in LoadedDisputes
    /\ user = NoUser
    /\ isLoading = TRUE
    /\ markaz_user \in StoredUsers
    /\ location \in Paths
    /\ updatingDisputes = {}
    /\ outstanding = <<>>

NextUi ==
    \/ RestoreSession
    \/ Login
    \/ Logout
    \/ FollowNavigate
    \/ Open
    \/ SetStatusFilter
    \/ LoadDisputes
    \/ HandleStatusChange
    \/ StatusUpdateSettles

SpecUi == InitUi /\ [][NextUi]_vars


(***************************************************************************)
(* JavaScript objects: the entries in insertion order.  A row served by    *)
(* the endpoint, like a request body, is such an object.                   *)
(***************************************************************************)
Entry(k, v) == [k |-> k, v |-> v]
Obj(entries) == [t |-> "object", e |-> entries]
Arr(items) == [t |-> "array", items |-> items]

\* JSON.stringify then JSON.parse: a property holding undefined is dropped
Json(entries) == Obj(SelectSeq(entries, LAMBDA en : en.v # Undef))

Has(obj, k) == \E i \in 1..Len(obj.e) : obj.e[i].k = k

\* obj[k]
Get(obj, k) ==
    IF Has(obj, k) THEN obj.e[CHOOSE i \in 1..Len(obj.e) : obj.e[i].k = k].v ELSE Undef

\* k.toLowerCase() for the property names of the model; a name without
\* capitals is its own lower case
LowerKey(k) ==
    CASE k = "Supplier" -> "supplier"
      [] k = "SUPPLIER" -> "supplier"
      [] k = "Supplier Name" -> "supplier name"
      [] k = "supplierName" -> "suppliername"
      [] k = "supplierEmail" -> "supplieremail"
      [] k = "SupplierEmail" -> "supplieremail"
      [] k = "Supplier Email" -> "supplier email"
      [] k = "supplierId" -> "supplierid"
      [] k = "SupplierID" -> "supplierid"
      [] k = "supplierCity" -> "suppliercity"
      [] k = "SupplierCity" -> "suppliercity"
      [] k = "deliveryPartner" -> "deliverypartner"
      [] k = "DeliveryPartner" -> "deliverypartner"
      [] k = "ID" -> "id"
      [] k = "Id" -> "id"
      [] k = "Order Item ID" -> "order item id"
      [] k = "OrderItemID" -> "orderitemid"
      [] k = "orderItemId" -> "orderitemid"
      [] k = "orderNumber" -> "ordernumber"
      [] k = "TrackingID" -> "trackingid"
      [] k = "TrackingId" -> "trackingid"
      [] k = "trackingId" -> "trackingid"
      [] k = "Timestamp" -> "timestamp"
      [] k = "submissionDate" -> "submissiondate"
      [] k = "SubmissionDate" -> "submissiondate"
      [] k = "Submission Date" -> "submission date"
      [] k = "disputeType" -> "disputetype"
      [] k = "DisputeType" -> "disputetype"
      [] k = "Dispute Type" -> "dispute type"
      [] k = "disputeDescription" -> "disputedescription"
      [] k = "reasonForDispute" -> "reasonfordispute"
      [] k = "ReasonforDispute" -> "reasonfordispute"
      [] k = "Reason for Dispute" -> "reason for dispute"
      [] k = "Reason" -> "reason"
      [] k = "disputeAmount" -> "disputeamount"
      [] k = "Dispute Amount" -> "dispute amount"
      [] k = "Attachments" -> "attachments"
      [] k = "Priority" -> "priority"
      [] k = "PRIORITY" -> "priority"
      [] k = "Category" -> "category"
      [] k = "Subcategory" -> "subcategory"
      [] k = "expectedResolution" -> "expectedresolution"
      [] k = "Expected Resolution" -> "expected resolution"
      [] k = "contactPhone" -> "contactphone"
      [] k = "Contact Phone" -> "contact phone"
      [] k = "preferredContactMethod" -> "preferredcontactmethod"
      [] k = "Preferred Contact Method" -> "preferred contact method"
      [] k = "Notes" -> "notes"
      [] k = "Email" -> "email"
      [] k = "Password" -> "password"
      [] k = "Role" -> "role"
      [] k = "Status" -> "status"
      [] k = "STATUS" -> "status"
      [] OTHER -> k

(***************************************************************************)
(* Webportal.ts: getFirst and normalizeRow.                                *)
(***************************************************************************)
\* row[k] !== undefined && row[k] !== null && row[k] !== ""
NonEmpty(v) == v # Undef /\ v # Null /\ v # Str(<<>>)

RECURSIVE getFirstOf(_, _)
getFirstOf(obj, keys) ==
    IF keys = <<>> THEN Str(<<>>)
    ELSE LET k == Head(keys)
             found == {i \in 1..Len(obj.e) : LowerKey(obj.e[i].k) = LowerKey(k)}
         IN  IF NonEmpty(Get(obj, k)) THEN Get(obj, k)
             ELSE IF found # {} /\ NonEmpty(obj.e[SetMin(found)].v)
                  THEN obj.e[SetMin(found)].v
                  ELSE getFirstOf(obj, Tail(keys))

getFirst(r, keys) == IF IsNullish(r) THEN Str(<<>>) ELSE getFirstOf(r, keys)

\* String(v)
String(v) == Str(ToChars(v))

\* /([a-zA-Z0-9._%+-]+@[a-zA-Z0-9.-]+\.[a-zA-Z]{2,})/
LocalChars == Letters \cup Range(Digits) \cup {".", "_", "%", "+", "-"}
DomainChars == Letters \cup Range(Digits) \cup {".", "-"}

\* chars[i..e] is an address: a local part, "@", a domain, ".", two letters or more
IsEmailAt(chars, i, e) ==
    \E at \in (i + 1)..(e - 4) : \E dot \in (at + 2)..(e - 2) :
        /\ \A j \in i..(at - 1) : chars[j] \in LocalChars
        /\ chars[at] = "@"
        /\ \A j \in (at + 1)..(dot - 1) : chars[j] \in DomainChars
        /\ chars[dot] = "."
        /\ \A j \in (dot + 1)..e : chars[j] \in Letters

\* RegExp.prototype.exec: the leftmost match, each quantifier as long as it can be
emailMatch(chars) ==
    LET starts == {i \in 1..Len(chars) : \E e \in i..Len(chars) : IsEmailAt(chars, i, e)}
        index == SetMin(starts)
        last == SetMax({e \in index..Len(chars) : IsEmailAt(chars, index, e)})
    IN  IF starts = {} THEN [found |-> FALSE]
        ELSE [found |-> TRUE, index |-> index, last |-> last]

\* supplierField.replace(emailMatch[0], "").replace(/[()<>]/g, "").trim()
NameWithoutEmail(chars, m) ==
    LET rest == SubSeq(chars, 1, m.index - 1) \o SubSeq(chars, m.last + 1, Len(chars))
    IN  trim(SelectSeq(rest, LAMBDA c : c \notin {"(", ")", "<", ">"}))

Medium == <<"M", "e", "d", "i", "u", "m">>
Pending == <<"P", "e", "n", "d", "i", "n", "g">>

normalizeRow(r) ==
    LET supplierField == String(Or(getFirst(r, <<"Supplier", "supplier", "Supplier Name",
                                                  "supplierName">>), Str(<<>>)))
        email == String(Or(getFirst(r, <<"supplierEmail", "Supplier Email",
                                          "supplier_email">>), Str(<<>>)))
        m == emailMatch(supplierField.s)
        supplierName == IF m.found THEN Str(NameWithoutEmail(supplierField.s, m))
                        ELSE supplierField
        supplierEmail == IF m.found THEN Str(SubSeq(supplierField.s, m.index, m.last))
                         ELSE email
        Text(keys) == String(Or(getFirst(r, keys), Str(<<>>)))
    IN  [Timestamp |-> Text(<<"Timestamp", "submissionDate", "Submission Date",
                              "SubmissionDate">>),
         supplierName |-> Or(supplierName, Str(<<>>)),
         supplierEmail |-> Or(supplierEmail, Str(<<>>)),
         supplierId |-> Text(<<"supplierId", "SupplierID", "supplier_id">>),
         disputeType |-> Text(<<"disputeType", "Dispute Type">>),
         disputeDescription |-> Text(<<"disputeDescription", "reason", "ReasonforDispute",
                                       "Reason for Dispute", "Reason">>),
         orderNumber |-> Text(<<"orderNumber", "orderItemId", "Order Item ID",
                                "OrderItemID">>),
         disputeAmount |-> Text(<<"disputeAmount", "Dispute Amount">>),
         attachments |-> Text(<<"attachments", "Attachments">>),
         priority |-> String(Or(getFirst(r, <<"priority", "Priority">>), Str(Medium))),
         category |-> Text(<<"category", "Category">>),
         subcategory |-> Text(<<"subcategory", "Subcategory">>),
         expectedResolution |-> Text(<<"expectedResolution", "Expected Resolution">>),
         contactPhone |-> Text(<<"contactPhone", "Contact Phone">>),
         preferredContactMethod |-> Text(<<"preferredContactMethod",
                                           "Preferred Contact Method">>),
         Status |-> Or(getFirst(r, <<"status", "Status">>), Str(Pending))]

(***************************************************************************)
(* googleSheets.ts getDisputes: the mapping it applies to each row.        *)
(***************************************************************************)
mapRow(r) ==
    LET Empty == Str(<<>>)
    IN  [Timestamp |-> Or(Get(r, "Timestamp"), Or(Get(r, "submissionDate"), Empty)),
         supplierName |-> Or(Get(r, "supplierName"), Or(Get(r, "Supplier"), Empty)),
         supplierEmail |-> Or(Get(r, "supplierEmail"), Empty),
         supplierId |-> Or(Get(r, "supplierId"), Or(Get(r, "SupplierID"), Empty)),
         disputeType |-> Or(Get(r, "disputeType"), Empty),
         disputeDescription |-> Or(Get(r, "disputeDescription"),
                                   Or(Get(r, "ReasonforDispute"), Empty)),
         orderNumber |-> Or(Get(r, "orderNumber"), Or(Get(r, "OrderItemID"), Empty)),
         disputeAmount |-> Or(Get(r, "disputeAmount"), Empty),
         attachments |-> Or(Get(r, "attachments"), Empty),
         priority |-> Or(Get(r, "priority"), Str(Medium)),
         category |-> Or(Get(r, "category"), Empty),
         subcategory |-> Or(Get(r, "subcategory"), Empty),
         expectedResolution |-> Or(Get(r, "expectedResolution"), Empty),
         contactPhone |-> Or(Get(r, "contactPhone"), Empty),
         preferredContactMethod |-> Or(Get(r, "preferredContactMethod"), Empty),
         Status |-> Or(Get(r, "Status"), Or(Get(r, "status"), Str(Pending)))]

(***************************************************************************)
(* The Apps Script endpoint (google-apps-script-fixed.gs, and the variant  *)
(* unnamed/part_000 whose dispute handling is the same).  A sheet is its   *)
(* rows, the header row first; the spreadsheet holds the sheets that       *)
(* exist, by name.                                                         *)
(***************************************************************************)
Date(t) == [t |-> "date", ms |-> t]

Pad2(n) == <<Digits[(n \div 10) + 1], Digits[(n % 10) + 1]>>

\* Date.prototype.toISOString, for an instant of January 2024
toISOString(t) ==
    LET inDay == t % MsPerDay
    IN  <<"2", "0", "2", "4", "-", "0", "1", "-">> \o Pad2(t \div MsPerDay) \o <<"T">>
        \o Pad2(inDay \div 3600000) \o <<":">> \o Pad2((inDay \div 60000) % 60) \o <<":">>
        \o Pad2((inDay \div 1000) % 60) \o <<".">>
        \o <<Digits[((inDay % 1000) \div 100) + 1]>> \o Pad2(inDay % 100) \o <<"Z">>

\* JSON.stringify of a cell: a Date is written as its ISO string
JsonValue(v) == IF v.t = "date" THEN Str(toISOString(v.ms)) ELSE v

RowObject(headers, cells) ==
    Obj([i \in 1..Len(headers) |-> Entry(headers[i], JsonValue(cells[i]))])

Failure(message) == [t |-> "object", success |-> FALSE, message |-> message]

doGet(sh, tab) ==
    LET sheetName == IF Truthy(tab) THEN tab ELSE "Supplierview"
    IN  IF sheetName \notin DOMAIN sh
        THEN Failure("Sheet '" \o sheetName \o "' not found")
        ELSE [t |-> "object", success |-> TRUE,
              data |-> LET headers == Head(sh[sheetName])
                           data == Tail(sh[sheetName])
                       IN  Arr([i \in 1..Len(data) |-> RowObject(headers, data[i])])]

requiredFields == <<"orderItemId", "trackingId", "supplierName", "supplierEmail">>

\* !body[field] || !body[field].toString().trim(), without the trim
IsMissing_NoTrim(v) == IsFalsy(v)

\* !body[field] || !body[field].toString().trim()
IsMissing(v) == IsFalsy(v) \/ trim(ToChars(v)) = <<>>

DisputeData(body, t) ==
    LET Empty == Str(<<>>)
    IN  [timestamp |-> Date(t),
         orderItemId |-> Or(Get(body, "orderItemId"), Empty),
         trackingId |-> Or(Get(body, "trackingId"), Empty),
         supplierCity |-> Or(Get(body, "supplierCity"), Empty),
         deliveryPartner |-> Or(Get(body, "deliveryPartner"), Empty),
         supplierName |-> Or(Get(body, "supplierName"), Empty),
         supplierEmail |-> Or(Get(body, "supplierEmail"), Empty),
         supplierId |-> Or(Get(body, "supplierId"), Empty),
         disputeType |-> Or(Get(body, "disputeType"), Empty),
         disputeDescription |-> Or(Get(body, "disputeDescription"),
                                   Or(Get(body, "reasonForDispute"), Empty)),
         reasonForDispute |-> Or(Get(body, "reasonForDispute"),
                                 Or(Get(body, "disputeDescription"), Empty)),
         attachments |-> Or(Get(body, "attachments"), Empty),
         priority |-> Or(Get(body, "priority"), Str(Medium)),
         status |-> Or(Get(body, "status"), Str(Pending))]

fieldMappings ==
    [Timestamp |-> <<"timestamp", "Timestamp", "submissionDate">>,
     OrderItemID |-> <<"orderItemId", "OrderItemID", "orderNumber">>,
     TrackingID |-> <<"trackingId", "TrackingID">>,
     SupplierCity |-> <<"supplierCity", "SupplierCity">>,
     DeliveryPartner |-> <<"deliveryPartner", "DeliveryPartner">>,
     Supplier |-> <<"supplierName", "Supplier">>,
     SupplierEmail |-> <<"supplierEmail", "SupplierEmail">>,
     SupplierID |-> <<"supplierId", "SupplierID">>,
     DisputeType |-> <<"disputeType", "DisputeType">>,
     ReasonforDispute |-> <<"reasonForDispute", "disputeDescription", "ReasonforDispute">>,
     Attachments |-> <<"attachments", "Attachments">>,
     Priority |-> <<"priority", "Priority">>,
     Status |-> <<"status", "Status">>]

getValueForHeader(data, header) ==
    LET Defined(f) == f \in DOMAIN data /\ data[f] # Undef
        mapped == IF header \in DOMAIN fieldMappings
                  THEN SelectSeq(fieldMappings[header], Defined)
                  ELSE <<>>
        sameName == {k \in DOMAIN data : LowerKey(k) = LowerKey(header)}
    IN  IF mapped # <<>> THEN data[Head(mapped)]
        ELSE IF Defined(header) THEN data[header]
        ELSE IF sameName # {} THEN data[CHOOSE k \in sameName : TRUE]
        ELSE Str(<<>>)

MappedRow(headers, data) ==
    [i \in 1..Len(headers) |-> getValueForHeader(data, headers[i])]

\* The appends in turn: a sheet that does not exist is passed over; fault is
\* the sheet whose appendRow throws, if any
RECURSIVE AppendRows(_, _, _, _)
AppendRows(sh, names, data, fault) ==
    IF names = <<>> THEN [sheets |-> sh, threw |-> FALSE]
    ELSE LET name == Head(names)
         IN  IF name \notin DOMAIN sh THEN AppendRows(sh, Tail(names), data, fault)
             ELSE IF fault = name THEN [sheets |-> sh, threw |-> TRUE]
             ELSE AppendRows([sh EXCEPT ![name] = Append(@, MappedRow(Head(sh[name]), data))],
                             Tail(names), data, fault)

\* The outcome of the handler: the sheets it leaves, the response it sends and
\* whether a store error was raised
handleCreateDisputeRequest(sh, body, t, fault) ==
    LET missing == {i \in 1..Len(requiredFields) : IsMissing(Get(body, requiredFields[i]))}
        out == AppendRows(sh, DestinationSheets, DisputeData(body, t), fault)
    IN  IF missing # {}
        THEN [sheets |-> sh, threw |-> FALSE,
              response |-> Failure(requiredFields[SetMin(missing)] \o " is required")]
        ELSE IF out.threw
        THEN [sheets |-> out.sheets, threw |-> TRUE, response |-> Failure("Service error")]
        ELSE [sheets |-> out.sheets, threw |-> FALSE,
              response |-> [t |-> "object", success |-> TRUE,
                            message |-> "Dispute submitted successfully"]]

(***************************************************************************)
(* The login of the endpoint.  The repository holds the script twice:      *)
(* google-apps-script-fixed.gs compares the credentials as they are,       *)
(* unnamed/part_000 trims them and ignores the case of the email and of    *)
(* the column headers.  A cell whose characters are never looked at is a   *)
(* Text.                                                                   *)
(***************************************************************************)
Scripts == {"google-apps-script-fixed.gs", "part_000"}

Text(string) == [t |-> "string", text |-> string]

\* The header row logLoginActivity gives the sheet it creates
ActivityHeaders ==
    <<"Timestamp", "Email", "SupplierId", "SupplierName", "IPAddress", "Status",
      "ErrorMessage">>

\* logLoginActivity: the sheet is created with its header row if the
\* spreadsheet has none, and the row appended; an error of the append is
\* caught and logged to the console only
logLoginActivity(sh, t, email, supplierId, supplierName, status, errorMessage, fault) ==
    LET Empty == Str(<<>>)
        with == IF "LoginActivity" \in DOMAIN sh THEN sh
                ELSE [name \in DOMAIN sh \cup {"LoginActivity"} |->
                        IF name = "LoginActivity" THEN <<ActivityHeaders>> ELSE sh[name]]
        cells == <<Date(t), Or(email, Empty), Or(supplierId, Empty), Or(supplierName, Empty),
                   Empty, Text(status),
                   IF errorMessage = Undefined THEN Empty ELSE Text(errorMessage)>>
    IN  IF fault = "LoginActivity" THEN [sheets |-> with, threw |-> TRUE]
        ELSE [sheets |-> [with EXCEPT !.LoginActivity = Append(@, cells)], threw |-> FALSE]

\* credHeaders.indexOf(name), or the findIndex of part_000 on the lower-cased
\* header; 0 stands for -1
ColumnIndex(credHeaders, name, script) ==
    LET hits == {i \in 1..Len(credHeaders) :
                    IF script = "part_000" THEN LowerKey(credHeaders[i]) = LowerKey(name)
                    ELSE credHeaders[i] = name}
    IN  IF hits = {} THEN 0 ELSE SetMin(hits)

\* row[idx]
At(cells, idx) == IF idx = 0 THEN Undef ELSE cells[idx]

\* The comparison of a row with the credentials of the request
RowMatches(rowEmail, rowPassword, email, password, script) ==
    IF script = "part_000"
    THEN /\ toLowerCase(trim(ToChars(Or(rowEmail, Str(<<>>))))) = trim(toLowerCase(email.s))
         /\ trim(ToChars(Or(rowPassword, Str(<<>>)))) = trim(password.s)
    ELSE rowEmail = email /\ rowPassword = password

Supplier == <<"s", "u", "p", "p", "l", "i", "e", "r">>

handleLoginRequest(sh, body, t, fault, script) ==
    LET email == Get(body, "email")
        password == Get(body, "password")
        Empty == Str(<<>>)
        \* the catch block: the attempt is logged if the body holds an email
        Caught(message) ==
            LET logged == logLoginActivity(sh, t, email, Undef, Undef, "failed", message, fault)
            IN  IF IsFalsy(email)
                THEN [sheets |-> sh, threw |-> FALSE, response |-> Failure(message)]
                ELSE [sheets |-> logged.sheets, threw |-> logged.threw,
                      response |-> Failure(message)]
    IN  IF IsFalsy(email) \/ IsFalsy(password)
        THEN Caught("Email and password are required")
        ELSE IF "LoginCredentials" \notin DOMAIN sh
        THEN Caught("Login credentials sheet not found")
        ELSE
        LET credHeaders == Head(sh.LoginCredentials)
            credData == Tail(sh.LoginCredentials)
            emailIdx == ColumnIndex(credHeaders, "email", script)
            passwordIdx == ColumnIndex(credHeaders, "password", script)
            supplierIdIdx == ColumnIndex(credHeaders, "supplierId", script)
            supplierNameIdx == ColumnIndex(credHeaders, "supplierName", script)
            roleIdx == ColumnIndex(credHeaders, "role", script)
            found == {i \in 1..Len(credData) :
                        RowMatches(credData[i][emailIdx], credData[i][passwordIdx],
                                   email, password, script)}
        IN  IF emailIdx = 0 \/ passwordIdx = 0
            THEN Caught(IF script = "part_000"
                        THEN "Login credentials sheet is missing required columns (email, password)"
                        ELSE "Login credentials sheet is missing required columns")
            ELSE IF found = {}
            THEN LET logged == logLoginActivity(sh, t, email, Undef, Undef, "failed",
                                                "Invalid email or password", fault)
                 IN  [sheets |-> logged.sheets, threw |-> logged.threw,
                      response |-> Failure("Invalid email or password")]
            ELSE LET found_user == credData[SetMin(found)]
                     supplierId == Or(At(found_user, supplierIdIdx), Empty)
                     supplierName == Or(At(found_user, supplierNameIdx), Empty)
                     logged == logLoginActivity(sh, t, email, supplierId, supplierName,
                                                "success", Undefined, fault)
                 IN  [sheets |-> logged.sheets, threw |-> logged.threw,
                      response |-> [t |-> "object", success |-> TRUE,
                                    user |-> [supplierId |-> supplierId,
                                              supplierName |-> supplierName,
                                              email |-> found_user[emailIdx],
                                              role |-> Or(At(found_user, roleIdx), Str(Supplier))],
                                    message |-> "Login successful"]]

loginSupplierAction == <<"l", "o", "g", "i", "n", "S", "u", "p", "p", "l", "i", "e", "r">>

\* doPost: a request without a body is refused, a login goes to
\* handleLoginRequest and every other body to handleCreateDisputeRequest
doPost(sh, body, t, fault, script) ==
    IF body = Undef
    THEN [sheets |-> sh, threw |-> FALSE, response |-> Failure("Missing POST body")]
    ELSE IF Get(body, "action") = Str(loginSupplierAction)
    THEN handleLoginRequest(sh, body, t, fault, script)
    ELSE handleCreateDisputeRequest(sh, body, t, fault)

createDisputeAction == <<"c", "r", "e", "a", "t", "e", "D", "i", "s", "p", "u", "t", "e">>
updateStatusAction == <<"u", "p", "d", "a", "t", "e", "S", "t", "a", "t", "u", "s">>

\* A status no schema of the repository lists
Closed == <<"C", "l", "o", "s", "e", "d">>

\* What a request holds in each required field
OrderItemIdValues == {Undef, Str(<<"x">>), Num(0)}
TrackingIdValues == {Str(<<>>), Str(<<" ">>), Str(<<"x">>)}
SupplierNameValues == {Null, Str(<<"x">>)}
SupplierEmailValues == {Str(<<" ">>), Str(<<"x">>)}

CreateBody(a, o, k, n, m, i) ==
    Json(<<Entry("action", a), Entry("orderItemId", o), Entry("trackingId", k),
           Entry("supplierName", n), Entry("supplierEmail", m), Entry("supplierId", i)>>)

\* The bodies posted: create requests that name the action, two that do not,
\* one with a supplier id and a status, and the body Webportal.ts posts to update
\* a status
PostBodies ==
    { CreateBody(Str(createDisputeAction), o, k, n, m, Undef) :
        o \in OrderItemIdValues, k \in TrackingIdValues,
        n \in SupplierNameValues, m \in SupplierEmailValues }
    \cup { CreateBody(Undef, Str(<<"x">>), Str(<<"x">>), Str(<<"x">>), Str(<<"x">>), Undef),
           CreateBody(Undef, Str(<<"x">>), Str(<<"x">>), Undef, Undef, Undef),
           Json(<<Entry("action", Str(createDisputeAction)), Entry("orderItemId", Str(<<"x">>)),
                  Entry("trackingId", Str(<<"x">>)), Entry("supplierName", Str(<<"x">>)),
                  Entry("supplierEmail", Str(<<"x">>)), Entry("supplierId", Str(<<"s">>)),
                  Entry("status", Str(Closed))>>),
           Json(<<Entry("action", Str(updateStatusAction)), Entry("id", Str(<<"1">>)),
                  Entry("status", Str(Pending))>>) }

Tabs == {Undefined, "Supplierview", "Newform", "Adminportal", "Archive"}

DoGet ==
    \E tab \in Tabs :
        /\ response' = doGet(sheets, tab)
        /\ call' = [op |-> "doGet", tab |-> tab]
        /\ UNCHANGED <<uiVars, loadVars, clock, storeVars, dashVars, tableVars, sheets, listed, row, normalized, faultsLeft>>

\* The sheet whose appendRow throws during a request, if any
Faults == {"none", "Supplierview", "Newform", "Adminportal", "LoginActivity"}

\* The script that serves a request other than a login, which both scripts
\* handle alike
AnyScript == CHOOSE script \in Scripts : TRUE

DoPost ==
    \E body \in PostBodies \cup {Undef}, fault \in Faults :
        LET out == doPost(sheets, body, clock, fault, AnyScript)
        IN  /\ fault # "none" => (faultsLeft > 0 /\ out.threw)
            /\ \A name \in DOMAIN out.sheets : Len(out.sheets[name]) <= MaxRows + 1
            /\ sheets' = out.sheets
            /\ response' = out.response
            /\ faultsLeft' = IF out.threw THEN faultsLeft - 1 ELSE faultsLeft
            /\ call' = [op |-> "doPost", body |-> body, fault |-> fault]
            /\ UNCHANGED <<uiVars, loadVars, clock, storeVars, dashVars, tableVars, listed, row, normalized>>

(***************************************************************************)
(* The clients' list calls against the endpoint: Webportal.ts with         *)
(* USE_DEMO false, and getDisputes of googleSheets.ts.  ok is whether the  *)
(* HTTP exchange succeeded.                                                *)
(***************************************************************************)
Value(v) == [kind |-> "value", value |-> v]
Throws(e) == [kind |-> "throws", error |-> e]

\* Array.isArray
IsArray(json) == json.t = "array"

\* raw.map((r) => normalizeRow(r))
NormalizeAll(items) == [i \in 1..Len(items) |-> normalizeRow(items[i])]

\* response.data.map((row) => ({...}))
MapAll(items) == [i \in 1..Len(items) |-> mapRow(items[i])]

getAdminportalDisputes(raw) ==
    IF ~IsArray(raw) THEN Value(<<>>) ELSE Value(NormalizeAll(raw.items))

getSupplierviewDisputes(raw, supplierIdOrEmail) ==
    LET arr == IF IsArray(raw) THEN NormalizeAll(raw.items) ELSE <<>>
    IN  IF IsFalsy(supplierIdOrEmail) THEN Value(arr)
        ELSE Value(SelectSeq(arr, LAMBDA d : \/ d.supplierEmail = supplierIdOrEmail
                                              \/ d.supplierId = supplierIdOrEmail))

\* GoogleSheetsAPI.makeRequest: the parsed JSON, whole, becomes the data of the result
makeRequest(ok, json) ==
    IF ~ok THEN [success |-> FALSE, error |-> "HTTP error"]
    ELSE IF "error" \in DOMAIN json /\ ~IsFalsy(json.error)
         THEN [success |-> FALSE, error |-> json.error]
         ELSE [success |-> TRUE, data |-> json]

\* getDisputes of googleSheets.ts: response.data.map is a call of undefined,
\* a TypeError, unless the data is an array
getDisputesOfSheets(apiResponse, supplierIdFilter) ==
    IF ~apiResponse.success THEN Value(<<>>)
    ELSE IF ~IsArray(apiResponse.data) THEN Throws("TypeError")
    ELSE LET mapped == MapAll(apiResponse.data.items)
         IN  IF IsFalsy(supplierIdFilter) THEN Value(mapped)
             ELSE Value(SelectSeq(mapped, LAMBDA d : d.supplierId = supplierIdFilter))

\* createDispute of googleSheets.ts on the result of GoogleSheetsAPI.createDispute
createDisputeOfSheets(apiResponse) == Value(apiResponse.success)

\* The body createDispute of googleSheets.ts posts for a dispute
ClientBody(dispute, t) ==
    Json(<<Entry("action", Str(createDisputeAction))>> \o dispute.e
         \o <<Entry("Timestamp", Str(toISOString(t)))>>)

\* The disputes handed to createDispute: one with the fields the endpoint
\* requires, and the form data of NewDisputeForm
ClientDisputes ==
    { Obj(<<Entry("orderItemId", Str(<<"x">>)), Entry("trackingId", Str(<<"x">>)),
            Entry("supplierName", Str(<<"x">>)), Entry("supplierEmail", Str(<<"x">>))>>),
      Obj(<<Entry("OrderItemID", Str(<<"x">>)), Entry("TrackingID", Str(<<"x">>)),
            Entry("ReasonforDispute", Str(<<>>))>>) }

OwnerValues == {Undef, Str(<<"s">>), Str(<<"x">>)}

GetAdminportalDisputes ==
    \E ok \in BOOLEAN :
        /\ response' = IF ok THEN doGet(sheets, "Adminportal") ELSE response
        /\ listed' = IF ok THEN getAdminportalDisputes(response')
                     ELSE Throws("Failed to fetch Adminportal data")
        /\ call' = [op |-> "getAdminportalDisputes", ok |-> ok]
        /\ UNCHANGED <<uiVars, loadVars, clock, storeVars, dashVars, tableVars, sheets, row, normalized, faultsLeft>>

GetSupplierviewDisputes ==
    \E ok \in BOOLEAN, v \in OwnerValues :
        /\ response' = IF ok THEN doGet(sheets, "Supplierview") ELSE response
        /\ listed' = IF ok THEN getSupplierviewDisputes(response', v)
                     ELSE Throws("Failed to fetch Supplierview data")
        /\ call' = [op |-> "getSupplierviewDisputes", ok |-> ok, filter |-> v]
        /\ UNCHANGED <<uiVars, loadVars, clock, storeVars, dashVars, tableVars, sheets, row, normalized, faultsLeft>>

GetDisputesOfSheets ==
    \E ok \in BOOLEAN, v \in OwnerValues :
        /\ response' = IF ok THEN doGet(sheets, "Adminportal") ELSE response
        /\ listed' = getDisputesOfSheets(makeRequest(ok, response'), v)
        /\ call' = [op |-> "getDisputesOfSheets", ok |-> ok, filter |-> v]
        /\ UNCHANGED <<uiVars, loadVars, clock, storeVars, dashVars, tableVars, sheets, row, normalized, faultsLeft>>

\* createDispute of googleSheets.ts; a request that fails on the way does not
\* reach the endpoint
CreateDisputeOfSheets ==
    \E ok \in BOOLEAN, dispute \in ClientDisputes, fault \in Faults :
        LET out == IF ok THEN doPost(sheets, ClientBody(dispute, clock), clock, fault, AnyScript)
                   ELSE [sheets |-> sheets, threw |-> FALSE, response |-> response]
        IN  /\ fault # "none" => (faultsLeft > 0 /\ out.threw)
            /\ \A name \in DOMAIN out.sheets : Len(out.sheets[name]) <= MaxRows + 1
            /\ sheets' = out.sheets
            /\ response' = out.response
            /\ faultsLeft' = IF out.threw THEN faultsLeft - 1 ELSE faultsLeft
            /\ listed' = createDisputeOfSheets(makeRequest(ok, response'))
            /\ call' = [op |-> "createDisputeOfSheets", ok |-> ok, dispute |-> dispute,
                        fault |-> fault]
            /\ UNCHANGED <<uiVars, loadVars, clock, storeVars, dashVars, tableVars, row, normalized>>

(***************************************************************************)
(* SpecEndpoint: the endpoint and the clients that read it, on a service   *)
(* that raises no store error, from sheets                                 *)
(* that hold their header row only, under every request drawn from         *)
(* PostBodies and Tabs.                                                    *)
(***************************************************************************)
InitEndpoint ==
    /\ StoreInit
    /\ UiInit
    /\ DashInit
    /\ TableInit
    /\ disputes = <<>>
    /\ clock = 17 * MsPerDay
    /\ call = [op |-> "init"]
    /\ sheets = AllSheets
    /\ faultsLeft = 0
    /\ response = [t |-> "none"]
    /\ listed = [kind |-> "none"]
    /\ row = <<>>
    /\ normalized = [kind |-> "none"]

NextEndpoint ==
    \/ DoGet
    \/ DoPost
    \/ GetAdminportalDisputes
    \/ GetSupplierviewDisputes
    \/ GetDisputesOfSheets
    \/ CreateDisputeOfSheets

SpecEndpoint == InitEndpoint /\ [][NextEndpoint]_vars

(***************************************************************************)
(* SpecLogin: login requests to either script, on a spreadsheet with or    *)
(* without its LoginCredentials and LoginActivity sheets, with a service   *)
(* that may raise a store error when the activity is logged.               *)
(***************************************************************************)
Admin == <<"a", "d", "m", "i", "n">>

\* The LoginCredentials sheet: an administrator and a supplier without a role
LoginCredentials ==
    <<<<"email", "password", "supplierId", "supplierName", "role">>,
      <<Str(<<"a", "@", "b">>), Str(<<"p", "w">>), Str(<<"S", "1">>), Str(<<"A">>), Str(Admin)>>,
      <<Str(<<"c", "@", "d">>), Str(<<"p", "w">>), Str(<<>>), Str(<<>>), Str(<<>>)>>>>

\* The sheet without its password column
WithoutPasswordColumn == <<<<"email", "supplierId", "supplierName", "role">>>>

\* The spreadsheets a login request may meet
LoginSheets ==
    { cred @@ act @@ AllSheets :
        cred \in {<<>>, [LoginCredentials |-> LoginCredentials],
                  [LoginCredentials |-> WithoutPasswordColumn]},
        act \in {<<>>, [LoginActivity |-> <<ActivityHeaders>>]} }

LoginBodies ==
    { Json(<<Entry("action", Str(loginSupplierAction)), Entry("email", email),
             Entry("password", password)>>) :
        email \in {Undef, Str(<<"a", "@", "b">>), Str(<<"A", "@", "b">>), Str(<<"c", "@", "d">>)},
        password \in {Undef, Str(<<"p", "w">>), Str(<<" ", "p", "w", " ">>), Str(<<"n", "o">>)} }

\* doPost with a login
DoPostLogin ==
    \E body \in LoginBodies, script \in Scripts, fault \in {"none", "LoginActivity"} :
        LET out == doPost(sheets, body, clock, fault, script)
        IN  /\ fault # "none" => (faultsLeft > 0 /\ out.threw)
            /\ "LoginActivity" \in DOMAIN out.sheets
                  => Len(out.sheets.LoginActivity) <= MaxLogRows + 1
            /\ sheets' = out.sheets
            /\ response' = out.response
            /\ faultsLeft' = IF out.threw THEN faultsLeft - 1 ELSE faultsLeft
            /\ call' = [op |-> "doPostLogin", body |-> body, script |-> script, fault |-> fault]
            /\ UNCHANGED <<uiVars, loadVars, clock, storeVars, dashVars, tableVars, listed, row, normalized>>

InitLogin ==
    /\ StoreInit
    /\ UiInit
    /\ DashInit
    /\ TableInit
    /\ disputes = <<>>
    /\ clock = 17 * MsPerDay
    /\ call = [op |-> "init"]
    /\ sheets \in LoginSheets
    /\ faultsLeft = MaxFaults
    /\ response = [t |-> "none"]
    /\ listed = [kind |-> "none"]
    /\ row = <<>>
    /\ normalized = [kind |-> "none"]

NextLogin ==
    \/ DoPostLogin
    \/ DoGet

SpecLogin == InitLogin /\ [][NextLogin]_vars

(***************************************************************************)
(* SpecAppend: the endpoint on a spreadsheet that may lack its Newform     *)
(* sheet, with a service that may raise a store error during an append.    *)
(***************************************************************************)
InitAppend ==
    /\ StoreInit
    /\ UiInit
    /\ DashInit
    /\ TableInit
    /\ disputes = <<>>
    /\ clock = 17 * MsPerDay
    /\ call = [op |-> "init"]
    /\ sheets \in {AllSheets, WithoutNewform}
    /\ faultsLeft = MaxFaults
    /\ response = [t |-> "none"]
    /\ listed = [kind |-> "none"]
    /\ row = <<>>
    /\ normalized = [kind |-> "none"]

NextAppend ==
    \/ DoGet
    \/ DoPost

SpecAppend == InitAppend /\ [][NextAppend]_vars

(***************************************************************************)
(* SpecNormalize: the two row mappings applied to every row of             *)
(* NormalizeInputs.                                                        *)
(***************************************************************************)
NormalizeInputs ==
    { Json(<<Entry("Supplier", s), Entry("supplierEmail", m), Entry("priority", p),
             Entry("Priority", q), Entry("PRIORITY", u), Entry("Dispute Amount", a),
             Entry("STATUS", st)>>) :
        s \in {Undef, Str(<<"A", "b">>),
               Str(<<"N", " ", "(", "a", "@", "b", ".", "c", "o", ")">>)},
        m \in {Undef, Str(<<"c", "@", "d", ".", "i", "o">>)},
        p \in {Undef, Str(<<>>), Str(<<"H", "i">>)},
        q \in {Undef, Str(<<"L", "o">>), Num(0)},
        u \in {Undef, Str(<<"U", "p">>)},
        a \in {Undef, Num(0), Num(5), Str(<<"9">>)},
        st \in {Undef, Str(<<"P", "a", "i", "d">>)} }
    \cup {Null}

NormalizeRow ==
    /\ normalized' = [kind |-> "normalizeRow", value |-> normalizeRow(row)]
    /\ call' = [op |-> "normalizeRow"]
    /\ UNCHANGED <<uiVars, loadVars, clock, storeVars, dashVars, tableVars, sheets, response, listed, row, faultsLeft>>

\* row.Timestamp of null is a TypeError
MapRow ==
    /\ normalized' = IF IsNullish(row) THEN Throws("TypeError")
                     ELSE [kind |-> "mapRow", value |-> mapRow(row)]
    /\ call' = [op |-> "mapRow"]
    /\ UNCHANGED <<uiVars, loadVars, clock, storeVars, dashVars, tableVars, sheets, response, listed, row, faultsLeft>>

InitNormalize ==
    /\ StoreInit
    /\ UiInit
    /\ DashInit
    /\ TableInit
    /\ disputes = <<>>
    /\ clock = 17 * MsPerDay
    /\ call = [op |-> "init"]
    /\ sheets = AllSheets
    /\ faultsLeft = 0
    /\ response = [t |-> "none"]
    /\ listed = [kind |-> "none"]
    /\ row \in NormalizeInputs
    /\ normalized = [kind |-> "none"]

NextNormalize ==
    \/ NormalizeRow
    \/ MapRow

SpecNormalize == InitNormalize /\ [][NextNormalize]_vars

(***************************************************************************)
(* SpecBuild: the record handleCreateDisputeRequest builds of a request    *)
(* body, for bodies that differ in their narrative fields and in two of    *)
(* the required ones.                                                      *)
(***************************************************************************)
NarrativeValues == {Undef, Str(<<>>), Str(<<"a">>), Str(<<"b">>), Num(0)}

NarrativeBodies ==
    { Json(<<Entry("action", Str(createDisputeAction)), Entry("orderItemId", o),
             Entry("trackingId", k), Entry("supplierName", Str(<<"x">>)),
             Entry("supplierEmail", Str(<<"x">>)), Entry("disputeDescription", d),
             Entry("reasonForDispute", r)>>) :
        o \in {Undef, Str(<<"x">>)}, k \in {Str(<<" ">>), Str(<<"x">>)},
        d \in NarrativeValues, r \in NarrativeValues }

\* The body passes the loop over requiredFields
Accepted(body) == \A i \in 1..Len(requiredFields) : ~IsMissing(Get(body, requiredFields[i]))

\* handleCreateDisputeRequest up to the record it writes from
BuildDisputeData ==
    /\ normalized' = IF Accepted(row)
                     THEN [kind |-> "disputeData", value |-> DisputeData(row, clock)]
                     ELSE Throws("required")
    /\ call' = [op |-> "disputeData"]
    /\ UNCHANGED <<uiVars, loadVars, clock, storeVars, dashVars, tableVars, sheets, response, listed, row, faultsLeft>>

InitBuild ==
    /\ StoreInit
    /\ UiInit
    /\ DashInit
    /\ TableInit
    /\ disputes = <<>>
    /\ clock = 17 * MsPerDay
    /\ call = [op |-> "init"]
    /\ sheets = AllSheets
    /\ faultsLeft = 0
    /\ response = [t |-> "none"]
    /\ listed = [kind |-> "none"]
    /\ row \in NarrativeBodies
    /\ normalized = [kind |-> "none"]

NextBuild == BuildDisputeData

SpecBuild == InitBuild /\ [][NextBuild]_vars

(***************************************************************************)
(* SpecCombine: the body createDispute of Webportal.ts builds outside demo *)
(* mode, whose Supplier field combines name and email, handed to           *)
(* normalizeRow.                                                           *)
(***************************************************************************)
Newform == <<"N", "e", "w", "f", "o", "r", "m">>

\* The body of Webportal.ts createDispute for a payload without city and
\* delivery partner
WebportalBody(payload, t) ==
    Json(<<Entry("tab", Str(Newform)), Entry("Timestamp", Str(toISOString(t))),
           Entry("OrderItemID", Str(payload.orderItemId)),
           Entry("TrackingID", Str(payload.trackingId)),
           Entry("City", Str(<<>>)), Entry("DeliveryPartner", Str(<<>>)),
           Entry("Supplier", Str(payload.supplierName \o <<" ", "(">>
                                   \o payload.supplierEmail \o <<")">>)),
           Entry("ReasonforDispute", Str(payload.reason))>>)

\* Supplier names: plain ones, and ones with brackets or an address in them
PlainNames ==
    {<<"N">>, <<"A", " ", "b">>, <<"D", "e", "m", "o">>, <<"A", "-", "1">>, <<"Z", ".">>}

SupplierNames == PlainNames \cup {<<"A", " ", "(", "B", ")">>, <<"<", "N", ">">>, <<"a", "@", "b", ".", "c", "d">>}

\* Supplier emails local@domain: with a top-level domain after a dot, and
\* without, as the demo accounts have them
DottedEmails ==
    {<<"a", "@", "b", ".", "c", "o">>, <<"a", ".", "b", "@", "c", "-", "d", ".", "o", "r", "g">>,
     <<"x", "_", "1", "@", "y", ".", "i", "o">>, <<"a", "@", "b", ".", "c", ".", "u", "k">>}

SupplierEmails ==
    DottedEmails \cup {<<"a", "@", "b">>, <<"s", "@", "d", "e", "m", "o">>, <<"a", "@", "b", ".", "c">>}

Payload(name, email) ==
    [orderItemId |-> <<"x">>, trackingId |-> <<"x">>, reason |-> <<"r">>,
     supplierName |-> name, supplierEmail |-> email]

CombinedRows ==
    {WebportalBody(Payload(name, email), 17 * MsPerDay) :
        name \in SupplierNames, email \in SupplierEmails}

InitCombine ==
    /\ StoreInit
    /\ UiInit
    /\ DashInit
    /\ TableInit
    /\ disputes = <<>>
    /\ clock = 17 * MsPerDay
    /\ call = [op |-> "init"]
    /\ sheets = AllSheets
    /\ faultsLeft = 0
    /\ response = [t |-> "none"]
    /\ listed = [kind |-> "none"]
    /\ row \in CombinedRows
    /\ normalized = [kind |-> "none"]

NextCombine == NormalizeRow

SpecCombine == InitCombine /\ [][NextCombine]_vars

(***************************************************************************)
(* SpecGetFirst: getFirst applied to rows whose keys differ in case only,  *)
(* in the order the sheet's headers give them.                             *)
(***************************************************************************)
GetFirstRows ==
    { Json(<<Entry("PRIORITY", u), Entry("Priority", q), Entry("priority", p),
             Entry("STATUS", st), Entry("Status", s)>>) :
        u \in {Undef, Str(<<"U", "p">>)},
        q \in {Undef, Str(<<>>), Str(<<"L", "o">>)},
        p \in {Undef, Null, Str(<<>>), Str(<<"H", "i">>)},
        st \in {Undef, Str(<<"P", "a", "i", "d">>)},
        s \in {Undef, Str(Pending)} }
    \cup {Null}

\* Key lists normalizeRow passes
KeyLists == {<<"priority", "Priority">>, <<"status", "Status">>}

GetFirst ==
    \E keys \in KeyLists :
        /\ normalized' = [kind |-> "getFirst", keys |-> keys, value |-> getFirst(row, keys)]
        /\ call' = [op |-> "getFirst"]
        /\ UNCHANGED <<uiVars, loadVars, clock, storeVars, dashVars, tableVars, sheets, response, listed, row, faultsLeft>>

InitGetFirst ==
    /\ StoreInit
    /\ UiInit
    /\ DashInit
    /\ TableInit
    /\ disputes = <<>>
    /\ clock = 17 * MsPerDay
    /\ call = [op |-> "init"]
    /\ sheets = AllSheets
    /\ faultsLeft = 0
    /\ response = [t |-> "none"]
    /\ listed = [kind |-> "none"]
    /\ row \in GetFirstRows
    /\ normalized = [kind |-> "none"]

NextGetFirst == GetFirst

SpecGetFirst == InitGetFirst /\ [][NextGetFirst]_vars

(***************************************************************************)
(* SpecTable: a status picked in the table of the administrator's          *)
(* dashboard (DisputeTable.tsx handleStatusChange, AdminDashboard.tsx      *)
(* handleStatusUpdate), over each service the repository holds: the demo   *)
(* service of App.tsx, the same service outside demo mode, which throws,   *)
(* and updateDisputeStatus of googleSheets.ts, which the dashboard         *)
(* imports.  ret holds the title of the toast.                             *)
(***************************************************************************)
Services == {"demo", "production", "sheets"}

\* dispute.supplierId + index for the row at position index of the list shown
TableTargetId(shown, index) == shown[index].supplierId \o ToString(index - 1)

StatusChangeOnRow ==
    \E index \in 1..Len(disputes), newStatus \in UpdateStatuses, service \in Services :
        LET disputeId == TableTargetId(disputes, index)
            r == IF service = "demo"
                 THEN updateDisputeStatus(MOCK_DISPUTES, disputeId, newStatus, clock)
                 ELSE [store |-> MOCK_DISPUTES, ret |-> TRUE]
        IN  /\ nWrites < MaxWrites
            /\ nWrites' = nWrites + 1
            /\ MOCK_DISPUTES' = r.store
            \* handleStatusUpdate: the result of the update is not looked at; the
            \* list is loaded again unless the update threw
            /\ disputes' = IF service = "demo" THEN getDisputes(r.store, Undefined)
                           ELSE disputes
            /\ ret' = IF service = "production" THEN "Update Failed" ELSE "Status Updated"
            /\ call' = [op |-> "handleStatusChange", index |-> index, status |-> newStatus,
                        service |-> service]
            /\ UNCHANGED <<uiVars, loadVars, clock, metrics, ageData, daysPassed, tableVars, remoteVars>>

InitTable ==
    /\ StoreInit
    /\ UiInit
    /\ RemoteInit
    /\ TableInit
    /\ clock = 17 * MsPerDay
    /\ call = [op |-> "init"]
    /\ disputes = MockData
    /\ DashInit

NextTable ==
    \/ StatusChangeOnRow
    \/ CreateDispute
    \/ Tick

SpecTable == InitTable /\ [][NextTable]_vars

(***************************************************************************)
(* SpecCreate: the create requests the clients build, against the          *)
(* endpoint on a service that raises no store error.                       *)
(***************************************************************************)
\* Payloads of a form filled with every field
FilledPayloads ==
    {Payload(name, email) : name \in {<<"N">>, <<"D", "e", "m", "o">>},
                            email \in {<<"a", "@", "b", ".", "c", "o">>, <<"s", "@", "d", "e", "m", "o">>}}

\* createDispute of Webportal.ts with USE_DEMO false: the request throws when
\* the transport fails, and returns result && result.success === true
CreateDisputeOfWebportal ==
    \E ok \in BOOLEAN, payload \in FilledPayloads :
        LET out == IF ok THEN doPost(sheets, WebportalBody(payload, clock), clock, "none", AnyScript)
                   ELSE [sheets |-> sheets, threw |-> FALSE, response |-> response]
        IN  /\ \A name \in DOMAIN out.sheets : Len(out.sheets[name]) <= MaxRows + 1
            /\ sheets' = out.sheets
            /\ response' = out.response
            /\ listed' = IF ok THEN Value(response'.success = TRUE)
                         ELSE Throws("HTTP error")
            /\ call' = [op |-> "createDisputeOfWebportal", ok |-> ok, payload |-> payload,
                        fault |-> "none"]
            /\ UNCHANGED <<uiVars, loadVars, clock, storeVars, dashVars, tableVars, row, normalized, faultsLeft>>

NextCreate ==
    \/ CreateDisputeOfWebportal
    \/ CreateDisputeOfSheets
    \/ DoGet

SpecCreate == InitEndpoint /\ [][NextCreate]_vars

(***************************************************************************)
(* SpecLoad: loadDisputes of the two dashboards and what starts it: the    *)
(* mount effect, the Refresh control, the end of a status update and the   *)
(* end of a dispute creation.  A load is a call that settles later, with   *)
(* a list from the service or with an error.                               *)
(***************************************************************************)
\* user?.supplierId
SupplierIdOf(u) == IF "supplierId" \in DOMAIN u THEN u.supplierId ELSE Undefined

\* loadDisputes up to its await: the supplier's dashboard returns at once
\* for a user without a supplier id
StartLoad ==
    IF Rendered.element = "AdminDashboard" \/ Truthy(SupplierIdOf(user))
    THEN /\ loads < MaxLoads
         /\ dashLoading' = TRUE
         /\ loads' = loads + 1
         /\ UNCHANGED logins
    ELSE UNCHANGED loadVars

\* useEffect(() => { loadDisputes() }, ...) after the first render
MountDashboard ==
    /\ TableMounted
    /\ call.op = "init"
    /\ StartLoad
    /\ call' = [op |-> "mount"]
    /\ UNCHANGED <<uiVars, clock, storeVars, dashVars, tableVars, remoteVars>>

\* The Refresh control, disabled while isLoading
Refresh ==
    /\ TableMounted
    /\ call.op # "init"
    /\ ~dashLoading
    /\ StartLoad
    /\ call' = [op |-> "refresh"]
    /\ UNCHANGED <<uiVars, clock, storeVars, dashVars, tableVars, remoteVars>>

\* handleStatusUpdate after the update: await loadDisputes().  The status
\* control is rendered for the administrator, on a row
StatusUpdateLoads ==
    /\ TableMounted
    /\ call.op # "init"
    /\ isAdmin
    /\ filteredDisputes # <<>>
    /\ StartLoad
    /\ call' = [op |-> "handleStatusUpdate"]
    /\ UNCHANGED <<uiVars, clock, storeVars, dashVars, tableVars, remoteVars>>

\* handleNewDispute after the creation: await loadDisputes(), on the
\* supplier's dashboard
NewDisputeLoads ==
    /\ TableMounted
    /\ call.op # "init"
    /\ Rendered.element = "SupplierDashboard"
    /\ StartLoad
    /\ call' = [op |-> "handleNewDispute"]
    /\ UNCHANGED <<uiVars, clock, storeVars, dashVars, tableVars, remoteVars>>

\* loadDisputes after its await: setDisputes(data) or the catch block, and
\* setIsLoading(false) in the finally block
LoadSettles ==
    \E ok \in BOOLEAN, data \in LoadedDisputes :
        /\ loads > 0
        /\ loads' = loads - 1
        /\ dashLoading' = FALSE
        /\ UNCHANGED logins
        /\ disputes' = IF ok THEN data ELSE disputes
        /\ filteredDisputes' =
              FilteredDisputes(disputes', searchTerm, statusFilter, priorityFilter, typeFilter)
        /\ call' = [op |-> "loadSettles", ok |-> ok]
        /\ UNCHANGED <<uiVars, clock, storeVars, remoteVars, metrics, ageData, daysPassed,
                       searchTerm, statusFilter, priorityFilter, typeFilter>>

InitLoad ==
    /\ StoreInit
    /\ RemoteInit
    /\ DashInit
    /\ TableInit
    /\ clock = 17 * MsPerDay
    /\ call = [op |-> "init"]
    /\ disputes = <<>>
    /\ \E i \in 1..Len(DEMO_USERS) :
          /\ user = WithoutPassword(DEMO_USERS[i])
          /\ location = Home(user)
    /\ markaz_user = user
    /\ isLoading = FALSE
    /\ updatingDisputes = {}
    /\ outstanding = <<>>

NextLoad ==
    \/ MountDashboard
    \/ Refresh
    \/ StatusUpdateLoads
    \/ NewDisputeLoads
    \/ LoadSettles
    \* the mount effect runs before any event of the user
    \/ (call.op # "init" /\ SetStatusFilter)

SpecLoad == InitLoad /\ [][NextLoad]_vars

(***************************************************************************)
(* SpecAuth: AuthContext as its consumers may call it: the effect that     *)
(* restores the session, then login and logout in any order, a login       *)
(* being a call that settles after its delay.                              *)
(***************************************************************************)
\* login up to its await
LoginStarts ==
    \E c \in Credentials :
        /\ call.op # "init"
        /\ Len(logins) < MaxLogins
        /\ logins' = Append(logins, c)
        /\ isLoading' = TRUE
        /\ call' = [op |-> "login", email |-> c.email]
        /\ UNCHANGED <<dashLoading, loads, clock, storeVars, dashVars, remoteVars, user,
                       markaz_user, location>>
        /\ Rerender

\* login after its await; the delays are equal, so the calls settle in the
\* order they were made
LoginSettles ==
    LET c == Head(logins)
        found == {i \in 1..Len(DEMO_USERS) :
                    DEMO_USERS[i].email = c.email /\ DEMO_USERS[i].password = c.password}
    IN  /\ logins # <<>>
        /\ logins' = Tail(logins)
        /\ user' = IF found = {} THEN user ELSE WithoutPassword(DEMO_USERS[SetMin(found)])
        /\ markaz_user' = IF found = {} THEN markaz_user ELSE user'
        /\ isLoading' = FALSE
        /\ call' = [op |-> "loginSettles", email |-> c.email, ok |-> found # {}]
        /\ UNCHANGED <<dashLoading, loads, clock, storeVars, dashVars, remoteVars, location>>
        /\ Rerender

\* logout, whatever is rendered
LogoutCalled ==
    /\ call.op # "init"
    /\ user' = NoUser
    /\ markaz_user' = NoUser
    /\ call' = [op |-> "logout"]
    /\ UNCHANGED <<loadVars, clock, storeVars, dashVars, remoteVars, isLoading, location>>
    /\ Rerender

InitAuth ==
    /\ StoreInit
    /\ RemoteInit
    /\ DashInit
    /\ TableInit
    /\ clock = 17 * MsPerDay
    /\ call = [op |-> "init"]
    /\ disputes \in LoadedDisputes
    /\ user = NoUser
    /\ isLoading = TRUE
    /\ markaz_user \in StoredUsers
    /\ location \in Paths
    /\ updatingDisputes = {}
    /\ outstanding = <<>>

NextAuth ==
    \* the effect runs once, before any call of a consumer
    \/ (call.op = "init" /\ RestoreSession)
    \/ LoginStarts
    \/ LoginSettles
    \/ LogoutCalled

SpecAuth == InitAuth /\ [][NextAuth]_vars

(***************************************************************************)
(* C1.  The status buckets of calculateMetrics add up to totalSubmitted:   *)
(* every record is counted in exactly one bucket, whatever its status.     *)
(* Fails: a record whose status is Under Review, or a string no schema     *)
(* knows, is counted in no bucket.                                         *)
(***************************************************************************)
BucketSum(m) ==
    m.totalPending + m.totalInProgress + m.totalResolved + m.totalRejected
        + m.totalFakeSignatures + m.totalPaid

C1_BucketsSumToTotal ==
    call.op = "render" => BucketSum(metrics) = metrics.totalSubmitted

(***************************************************************************)
(* C10.  For each of the six statuses calculateMetrics reports the number  *)
(* of records of the collection with that status, and totalSubmitted is    *)
(* the length of the collection; the built-in collection yields 7, 2 and   *)
(* 1 for each other bucket.                                                *)
(***************************************************************************)
NumberWithStatus(ds, s) == Cardinality({i \in 1..Len(ds) : ds[i].status = s})

C10_MetricsCountEachStatus ==
    call.op = "render" =>
        /\ metrics.totalSubmitted = Len(disputes)
        /\ metrics.totalPending = NumberWithStatus(disputes, "Pending")
        /\ metrics.totalInProgress = NumberWithStatus(disputes, "In Progress")
        /\ metrics.totalResolved = NumberWithStatus(disputes, "Resolved")
        /\ metrics.totalRejected = NumberWithStatus(disputes, "Rejected")
        /\ metrics.totalFakeSignatures = NumberWithStatus(disputes, "Fake Signatures")
        /\ metrics.totalPaid = NumberWithStatus(disputes, "Paid")
        /\ disputes = MockData =>
              metrics = [totalSubmitted |-> 7, totalPending |-> 2, totalResolved |-> 1,
                         totalInProgress |-> 1, totalRejected |-> 1,
                         totalFakeSignatures |-> 1, totalPaid |-> 1]

C10_Witness ==
    /\ call.op = "render"
    /\ disputes = MockData
    /\ metrics.totalSubmitted = 7
    /\ metrics.totalPending = 2
    /\ metrics.totalPaid = 1

(***************************************************************************)
(* C8.  The age distribution always consists of the four buckets 0-3, 4-7, *)
(* 8-14 and 15+ days in that order, a bucket without records reporting 0;  *)
(* every pending record is counted in exactly one of them, so the counts   *)
(* add up to the number of pending records; a record exactly 3 days old is *)
(* counted in 0-3 and a record exactly 4 days old in 4-7.                  *)
(***************************************************************************)
ElapsedMs(d, t) == Abs(t - DateTime(d.submissionDate))

\* The elapsed time a bucket covers: more than lo whole days, at most hi
\* (the last bucket has no upper end)
BucketBounds == << [lo |-> -1, hi |-> 3], [lo |-> 3, hi |-> 7],
                   [lo |-> 7, hi |-> 14], [lo |-> 14, hi |-> 14] >>

PendingIn(ds, t, k) ==
    {i \in 1..Len(ds) :
        /\ ds[i].status = "Pending"
        /\ ElapsedMs(ds[i], t) > BucketBounds[k].lo * MsPerDay
        /\ k < 4 => ElapsedMs(ds[i], t) <= BucketBounds[k].hi * MsPerDay}

IsCeilingOfDays(n, ms) == n * MsPerDay >= ms /\ (n - 1) * MsPerDay < ms

C9_NeverZero ==
    call.op = "render" =>
        \A i \in 1..Len(disputes) :
            /\ getDaysOld(disputes[i].submissionDate, clock) >= 1
            /\ HasTimestamp(disputes[i]) =>
                  /\ IsCeilingOfDays(daysPassed[i], ElapsedMs(disputes[i], clock))
                  /\ daysPassed[i] >= 1

(***************************************************************************)
(* C9 as amended.  The elapsed-days value is the ceiling of the absolute   *)
(* difference in days: at least 1 for every non-zero difference, however   *)
(* short, and 0 exactly when the difference is zero.                       *)
(***************************************************************************)
C9_CeilingOfAbsoluteDifference ==
    call.op = "render" =>
        \A i \in 1..Len(disputes) :
            LET e == ElapsedMs(disputes[i], clock)
                n == daysPassed[i]
                m == getDaysOld(disputes[i].submissionDate, clock)
            IN  /\ IsCeilingOfDays(m, e)
                /\ e > 0 => m >= 1
                /\ e = 0 <=> m = 0
                /\ HasTimestamp(disputes[i]) =>
                      /\ IsCeilingOfDays(n, e)
                      /\ e > 0 => n >= 1
                      /\ e = 0 <=> n = 0

C9_Witness ==
    /\ call.op = "render"
    /\ \E i \in 1..Len(disputes) :
          /\ HasTimestamp(disputes[i])
          /\ ElapsedMs(disputes[i], clock) = 30 * 60 * 1000
          /\ daysPassed[i] = 1
    /\ \E j \in 1..Len(disputes) :
          /\ HasTimestamp(disputes[j])
          /\ clock < DateTime(disputes[j].submissionDate)
          /\ daysPassed[j] = 1

(***************************************************************************)
(* C4.  updateStatus called with an id that matches no record of the store *)
(* returns a not-found failure (false) and leaves every record unchanged.  *)
(* Fails: the sheets service's updateDisputeStatus returns true whatever   *)
(* the id.                                                                 *)
(***************************************************************************)
C4_UnknownIdFailsAndLeavesStore ==
    [][(/\ call'.op = "updateDisputeStatus"
        /\ FindIndex(MOCK_DISPUTES, call'.disputeId) = 0)
          => (ret' = FALSE /\ MOCK_DISPUTES' = MOCK_DISPUTES)]_vars

(***************************************************************************)
(* C6.  list with an owner filter value v returns, in their original       *)
(* order, exactly the records whose supplierId equals v or whose           *)
(* supplierEmail equals v.  Fails: the services compare supplierId only,   *)
(* so an email as the filter value selects no record.                      *)
(***************************************************************************)
OwnedBy(store, v) ==
    SelectSeq(store, LAMBDA d : d.supplierId = v \/ d.supplierEmail = v)

C6_OwnerFilterByIdOrEmail ==
    (call.op = "getDisputes" /\ Truthy(call.supplierId))
        => ret = OwnedBy(MOCK_DISPUTES, call.supplierId)

(***************************************************************************)
(* C2.  The rows shown are the subsequence of the input made of exactly    *)
(* the records that satisfy every active criterion; a criterion set to     *)
(* 'all', or a search box left empty, excludes no record, and the          *)
(* selectors match by exact equality.  Fails: with the search box empty a  *)
(* record none of whose searched fields is present is excluded (C11).      *)
(***************************************************************************)
SearchedFields ==
    {"orderNumber", "supplierName", "supplierEmail", "supplierId", "disputeDescription"}

TermFound(d, term) ==
    \E f \in SearchedFields :
        /\ d[f].t = "string"
        /\ includes(toLowerCase(d[f].s), toLowerCase(term))

SatisfiesCriteria(d) ==
    /\ searchTerm = <<>> \/ TermFound(d, searchTerm)
    /\ statusFilter = "all" \/ d.Status = statusFilter
    /\ priorityFilter = "all" \/ d.priority = priorityFilter
    /\ typeFilter = "all" \/ d.disputeType = typeFilter

C2_FilterIsConjunctionOfCriteria ==
    filteredDisputes = SelectSeq(disputes, SatisfiesCriteria)

(***************************************************************************)
(* C3 as claimed.  A create-dispute request in which one of orderItemId,   *)
(* trackingId, supplierName, supplierEmail is absent or blank after        *)
(* trimming is answered with success false and a message naming the first  *)
(* such field, and appends no row.  Fails on the message: a field holding  *)
(* the number 0 is neither absent nor blank, and is the one named.         *)
(***************************************************************************)
RequiredInOrder == <<"orderItemId", "trackingId", "supplierName", "supplierEmail">>

AbsentOrBlank(v) == IsNullish(v) \/ (v.t = "string" /\ trim(v.s) = <<>>)

AbsentBlankOrZero(v) == AbsentOrBlank(v) \/ (v.t = "number" /\ v.n = 0)

FirstField(body, P(_)) ==
    LET hits == {i \in 1..Len(RequiredInOrder) : P(Get(body, RequiredInOrder[i]))}
    IN  IF hits = {} THEN Undefined ELSE RequiredInOrder[SetMin(hits)]

RejectedNaming(field) ==
    /\ response'.success = FALSE
    /\ response'.message = field \o " is required"
    /\ sheets' = sheets

C3_FirstAbsentOrBlankFieldNamed ==
    [][(/\ call'.op = "doPost"
        /\ call'.body # Undef
        /\ FirstField(call'.body, AbsentOrBlank) # Undefined)
       => RejectedNaming(FirstField(call'.body, AbsentOrBlank))]_vars

(***************************************************************************)
(* C3 as amended.  A create-dispute request in which one of the four       *)
(* fields is absent, null, blank after trimming or the number 0 is         *)
(* answered with success false and a message naming the first such field,  *)
(* and appends no row to any sheet.                                        *)
(***************************************************************************)
C3_FirstMissingFieldNamed ==
    [][(/\ call'.op = "doPost"
        /\ call'.body # Undef
        /\ FirstField(call'.body, AbsentBlankOrZero) # Undefined)
       => RejectedNaming(FirstField(call'.body, AbsentBlankOrZero))]_vars

\* A request with an order item id and a blank tracking id has been refused,
\* naming trackingId, after an earlier request had appended a row
C3_Witness ==
    /\ call.op = "doPost"
    /\ call.body # Undef
    /\ Get(call.body, "orderItemId") = Str(<<"x">>)
    /\ Get(call.body, "trackingId") = Str(<<" ">>)
    /\ response.success = FALSE
    /\ response.message = "trackingId is required"
    /\ DOMAIN sheets = DOMAIN AllSheets
    /\ sheets.Supplierview = sheets.Adminportal
    /\ Len(sheets.Adminportal) = 2
    /\ Len(sheets.Newform) = 2

(***************************************************************************)
(* C5.  A list call without an owner filter returns one normalized record  *)
(* per data row that doGet serves for the table, in row order.  Fails:     *)
(* doGet serves the object {success, data}; getAdminportalDisputes takes   *)
(* anything but an array for an empty list, and getDisputes of             *)
(* googleSheets.ts calls map on that object.                               *)
(***************************************************************************)
ServedRows == doGet(sheets, "Adminportal").data.items

C5_ListReturnsOneRecordPerRow ==
    /\ (call.op = "getAdminportalDisputes" /\ call.ok)
          => listed = Value([i \in 1..Len(ServedRows) |-> normalizeRow(ServedRows[i])])
    /\ (call.op = "getDisputesOfSheets" /\ call.ok /\ call.filter = Undef)
          => listed = Value([i \in 1..Len(ServedRows) |-> mapRow(ServedRows[i])])

(***************************************************************************)
(* C7.  For every canonical field normalizeRow returns the first non-empty *)
(* value found under the field's ordered list of accepted keys, and the    *)
(* field's default when no accepted key holds one.  Read in the claim's    *)
(* favour: the value may come back as its string, a row with a key that    *)
(* differs from an accepted key in case only is left out, and so is the    *)
(* supplier pair when the supplier field embeds an address.  Fails: a      *)
(* non-empty value that JavaScript takes for false, the number 0, is       *)
(* replaced by the default.                                                *)
(***************************************************************************)
AcceptedKeys ==
    [Timestamp |-> <<"Timestamp", "submissionDate", "Submission Date", "SubmissionDate">>,
     supplierName |-> <<"Supplier", "supplier", "Supplier Name", "supplierName">>,
     supplierEmail |-> <<"supplierEmail", "Supplier Email", "supplier_email">>,
     supplierId |-> <<"supplierId", "SupplierID", "supplier_id">>,
     disputeType |-> <<"disputeType", "Dispute Type">>,
     disputeDescription |-> <<"disputeDescription", "reason", "ReasonforDispute",
                              "Reason for Dispute", "Reason">>,
     orderNumber |-> <<"orderNumber", "orderItemId", "Order Item ID", "OrderItemID">>,
     disputeAmount |-> <<"disputeAmount", "Dispute Amount">>,
     attachments |-> <<"attachments", "Attachments">>,
     priority |-> <<"priority", "Priority">>,
     category |-> <<"category", "Category">>,
     subcategory |-> <<"subcategory", "Subcategory">>,
     expectedResolution |-> <<"expectedResolution", "Expected Resolution">>,
     contactPhone |-> <<"contactPhone", "Contact Phone">>,
     preferredContactMethod |-> <<"preferredContactMethod", "Preferred Contact Method">>,
     Status |-> <<"status", "Status">>]

DocumentedDefault(F) ==
    CASE F = "priority" -> Str(Medium)
      [] F = "Status" -> Str(Pending)
      [] OTHER -> Str(<<>>)

FirstNonEmpty(r, keys) ==
    LET hits == {i \in 1..Len(keys) : NonEmpty(Get(r, keys[i]))}
    IN  IF hits = {} THEN Undef ELSE Get(r, keys[SetMin(hits)])

OnlyAcceptedKeys(r, keys) ==
    \A i \in 1..Len(r.e) :
        (\E j \in 1..Len(keys) : LowerKey(r.e[i].k) = LowerKey(keys[j]))
            => r.e[i].k \in Range(keys)

EmbedsAddress(r) ==
    LET supplier == FirstNonEmpty(r, AcceptedKeys.supplierName)
    IN  supplier # Undef /\ emailMatch(ToChars(supplier)).found

C7_FirstNonEmptyOrDefault ==
    (normalized.kind = "normalizeRow" /\ ~IsNullish(row)) =>
        \A F \in DOMAIN AcceptedKeys :
            (/\ OnlyAcceptedKeys(row, AcceptedKeys[F])
             /\ F \in {"supplierName", "supplierEmail"} => ~EmbedsAddress(row))
            => LET first == FirstNonEmpty(row, AcceptedKeys[F])
               IN  normalized.value[F] =
                       IF first = Undef THEN DocumentedDefault(F) ELSE String(first)

(***************************************************************************)
(* C11.  With the search box empty and the three selectors at 'all' the    *)
(* rows shown are the input collection, same records in the same order,    *)
(* whatever the searched fields hold or lack.  Fails: a record that has    *)
(* none of the five searched fields is not shown.                          *)
(***************************************************************************)
C11_NoCriteriaShowsInput ==
    (/\ searchTerm = <<>>
     /\ statusFilter = "all"
     /\ priorityFilter = "all"
     /\ typeFilter = "all")
    => filteredDisputes = disputes

(***************************************************************************)
(* C12 as claimed.  A record satisfies the search term exactly when the    *)
(* lower-cased term is a substring of the lower-cased value of one of:     *)
(* order identifier, tracking identifier, supplier name, supplier email,   *)
(* description.  Fails: the tracking identifier is not searched and the    *)
(* supplier id is.                                                         *)
(***************************************************************************)
ClaimedSearchFields ==
    {"orderNumber", "trackingId", "supplierName", "supplierEmail", "disputeDescription"}

FoundIn(fields, d, term) ==
    \E f \in fields :
        /\ d[f].t = "string"
        /\ includes(toLowerCase(d[f].s), toLowerCase(term))

NoSelector == statusFilter = "all" /\ priorityFilter = "all" /\ typeFilter = "all"

C12_SearchOverClaimedFields ==
    NoSelector =>
        filteredDisputes =
            SelectSeq(disputes, LAMBDA d : FoundIn(ClaimedSearchFields, d, searchTerm))

(***************************************************************************)
(* C12 as amended.  A record satisfies the search term exactly when the    *)
(* lower-cased term is a substring of the lower-cased value of one of:     *)
(* order number, supplier name, supplier email, supplier id, description;  *)
(* a field the record lacks holds no value and matches no term.            *)
(***************************************************************************)
C12_SearchOverFiveFields ==
    NoSelector =>
        filteredDisputes =
            SelectSeq(disputes, LAMBDA d : FoundIn(SearchedFields, d, searchTerm))

\* The term "Ab" over a record that holds "ab" as its tracking id only and one
\* that holds "AB" as its supplier id only: the second alone is shown
C12_Witness ==
    /\ call.op = "setSearchTerm"
    /\ searchTerm = <<"A", "b">>
    /\ NoSelector
    /\ Len(disputes) = 2
    /\ disputes[1].trackingId = Str(<<"a", "b">>)
    /\ disputes[1].supplierId = Undef
    /\ disputes[2].supplierId = Str(<<"A", "B">>)
    /\ disputes[2].trackingId = Undef
    /\ filteredDisputes = <<disputes[2]>>

(***************************************************************************)
(* C13.  In every state reachable by create and status-update operations   *)
(* every record of the store has one status, a member of Pending, In       *)
(* Progress, Resolved, Rejected, Fake Signatures, Paid, Under Review; a    *)
(* record created without a status has status Pending.  Fails: the         *)
(* endpoint stores whatever status the request carries.                    *)
(***************************************************************************)
EnumeratedStatus ==
    { Str(Pending),
      Str(<<"I", "n", " ", "P", "r", "o", "g", "r", "e", "s", "s">>),
      Str(<<"R", "e", "s", "o", "l", "v", "e", "d">>),
      Str(<<"R", "e", "j", "e", "c", "t", "e", "d">>),
      Str(<<"F", "a", "k", "e", " ", "S", "i", "g", "n", "a", "t", "u", "r", "e", "s">>),
      Str(<<"P", "a", "i", "d">>),
      Str(<<"U", "n", "d", "e", "r", " ", "R", "e", "v", "i", "e", "w">>) }

Cell(headers, cells, header) ==
    cells[CHOOSE i \in 1..Len(headers) : headers[i] = header]

C13_StatusAlwaysEnumerated ==
    /\ \A name \in DOMAIN sheets : \A i \in 2..Len(sheets[name]) :
          Cell(sheets[name][1], sheets[name][i], "Status") \in EnumeratedStatus
    /\ (/\ call.op = "doPost"
        /\ call.body # Undef
        /\ response.success
        /\ Get(call.body, "status") = Undef)
       => LET rows == sheets.Adminportal
          IN  Cell(rows[1], rows[Len(rows)], "Status") = Str(Pending)

(***************************************************************************)
(* C14.  Whenever a create-dispute request is answered success true, each  *)
(* of the sheets Supplierview, Newform and Adminportal has gained exactly  *)
(* one row, which holds under every header the value of the field the      *)
(* header's synonyms select and the empty string under a header that maps  *)
(* to no field.  Fails: a destination sheet the spreadsheet does not hold  *)
(* is passed over, and the request is answered success true all the same.  *)
(***************************************************************************)
SelectedField(header) ==
    CASE header = "Timestamp" -> "timestamp"
      [] header = "OrderItemID" -> "orderItemId"
      [] header = "TrackingID" -> "trackingId"
      [] header = "Supplier" -> "supplierName"
      [] header = "SupplierEmail" -> "supplierEmail"
      [] header = "SupplierID" -> "supplierId"
      [] header = "ReasonforDispute" -> "reasonForDispute"
      [] header = "Priority" -> "priority"
      [] header = "PRIORITY" -> "priority"
      [] header = "supplierCity" -> "supplierCity"
      [] header = "Status" -> "status"
      [] OTHER -> Undefined

ExpectedRow(headers, body, t) ==
    [i \in 1..Len(headers) |->
        IF SelectedField(headers[i]) = Undefined THEN Str(<<>>)
        ELSE DisputeData(body, t)[SelectedField(headers[i])]]

GainedMappedRow(name) ==
    /\ name \in DOMAIN sheets
    /\ name \in DOMAIN sheets'
    /\ sheets'[name] = Append(sheets[name], ExpectedRow(Head(sheets[name]), call'.body, clock))

C14_EveryTableGainsTheMappedRow ==
    [][(call'.op = "doPost" /\ response'.success)
       => \A i \in 1..Len(DestinationSheets) : GainedMappedRow(DestinationSheets[i])]_vars

(***************************************************************************)
(* C15.  Whenever a create-dispute request is answered success false, for  *)
(* a validation error or for a store error raised during an append, every  *)
(* sheet holds the rows it held before the request.  Fails: the appends    *)
(* are made one sheet after the other and none is undone, so an error      *)
(* raised by the append to Newform or to Adminportal leaves the row in the *)
(* sheets before it.                                                       *)
(***************************************************************************)
C15_RefusedRequestLeavesSheets ==
    [][(call'.op = "doPost" /\ response'.success = FALSE) => sheets' = sheets]_vars

(***************************************************************************)
(* C16.  Whenever the endpoint answers a request with success false and a  *)
(* message, the client built on makeRequest reports a failure to its       *)
(* caller and never returns true.  Taken for createDispute of              *)
(* googleSheets.ts.  Fails: makeRequest looks for a property named error,  *)
(* the endpoint's refusal has none, and the refusal comes back as the data *)
(* of a result with success true, so createDispute returns true.           *)
(***************************************************************************)
C16_RefusedCreateReturnsFalse ==
    (call.op = "createDisputeOfSheets" /\ call.ok /\ response.success = FALSE)
        => listed = Value(FALSE)

(***************************************************************************)
(* C17.  The control of a status update is disabled from the moment its    *)
(* call is issued until the call settles, so no dispute has two calls in   *)
(* flight at once, whatever the order of user events, filter changes,      *)
(* reloads and settlements.  Taken for the status control of the table.    *)
(* Fails: the control is disabled by the id supplierId + index, the index  *)
(* being the row's place in the filtered list, so a filter change or a     *)
(* reload that moves the row gives it an id that is not disabled.          *)
(***************************************************************************)
ControlDisabled(dispute) ==
    \A index \in 1..Len(filteredDisputes) :
        filteredDisputes[index] = dispute => RowId(dispute, index - 1) \in updatingDisputes

C17_OneCallPerDisputeInFlight ==
    /\ \A i, j \in 1..Len(outstanding) :
          i # j => outstanding[i].dispute # outstanding[j].dispute
    /\ \A i \in 1..Len(outstanding) :
          (isAdmin /\ outstanding[i].live) => ControlDisabled(outstanding[i].dispute)

(***************************************************************************)
(* C20.  A status update can be invoked only while the current user has    *)
(* the role admin: the status control is rendered by the administrator's   *)
(* dashboard only, that dashboard is rendered only for an authenticated    *)
(* user whose role is admin, and a visitor without a session at /admin or  *)
(* /supplier is sent to /login.                                            *)
(***************************************************************************)
ControlRendered == TableMounted /\ isAdmin

C20_StatusUpdateOnlyForAdmin ==
    /\ ControlRendered => (isAuthenticated(user) /\ RoleOf(user) = "admin")
    /\ Rendered.element = "AdminDashboard" => (isAuthenticated(user) /\ RoleOf(user) = "admin")
    /\ Rendered.element = "SupplierDashboard" => ~ControlRendered
    /\ call.op = "handleStatusChange" => call.role = "admin"
    /\ (~isAuthenticated(user) /\ ~isLoading /\ location \in {"/admin", "/supplier"})
          => Rendered = Navigate("/login")

\* An administrator whose session is stored has changed a status at /admin,
\* and the call is in flight
C20_Witness ==
    /\ call.op = "handleStatusChange"
    /\ call.role = "admin"
    /\ location = "/admin"
    /\ RoleOf(markaz_user) = "admin"
    /\ Len(outstanding) = 1

(***************************************************************************)
(* C18.  A login succeeds exactly when some row of the credentials table   *)
(* has the submitted email, letter case ignored, and the submitted         *)
(* password trimmed of surrounding whitespace; the response of a success   *)
(* carries the role of the row, or supplier when the row has none, and     *)
(* every other response is a failure.  Fails of                            *)
(* google-apps-script-fixed.gs, which compares both cells as they are: an  *)
(* email in another case, or a password with a space around it, is         *)
(* refused.                                                                *)
(***************************************************************************)
CredentialRows(sh) ==
    IF "LoginCredentials" \in DOMAIN sh
       /\ {"email", "password"} \subseteq Range(Head(sh.LoginCredentials))
    THEN Tail(sh.LoginCredentials)
    ELSE <<>>

SubmittedText(body, name) ==
    IF Get(body, name) = Undef THEN <<>> ELSE Get(body, name).s

\* The rows that hold the submitted email, case ignored, and the submitted
\* password, trimmed; the sheets of the model have email and password first
EntitledRows(sh, body) ==
    {i \in 1..Len(CredentialRows(sh)) :
        /\ Get(body, "email") # Undef
        /\ Get(body, "password") # Undef
        /\ toLowerCase(CredentialRows(sh)[i][1].s) = toLowerCase(SubmittedText(body, "email"))
        /\ CredentialRows(sh)[i][2].s = trim(SubmittedText(body, "password"))}

RoleOfRow(cells) == IF cells[5] = Str(<<>>) THEN Str(Supplier) ELSE cells[5]

C18_LoginMatchesCredentials ==
    [][call'.op = "doPostLogin" =>
        LET entitled == EntitledRows(sheets, call'.body)
        IN  /\ response'.success = (entitled # {})
            /\ entitled # {} =>
                  response'.user.role = RoleOfRow(CredentialRows(sheets)[SetMin(entitled)])]_vars

(***************************************************************************)
(* C19.  Every login request that the store serves without an error,       *)
(* successful or failed, appends exactly one row to the LoginActivity      *)
(* sheet, holding the email, the status and, for a failure, the message of *)
(* the response; a spreadsheet without the sheet gains it with the fixed   *)
(* header row first.  Fails: the failure of a request without an email is  *)
(* logged under the condition that the body holds an email, so that        *)
(* request leaves no row.                                                  *)
(***************************************************************************)
ActivityBefore(sh) ==
    IF "LoginActivity" \in DOMAIN sh THEN sh.LoginActivity ELSE <<ActivityHeaders>>

C19_EveryAttemptLogged ==
    [][(call'.op = "doPostLogin" /\ call'.fault = "none") =>
        /\ "LoginActivity" \in DOMAIN sheets'
        /\ Len(sheets'.LoginActivity) = Len(ActivityBefore(sheets)) + 1
        /\ SubSeq(sheets'.LoginActivity, 1, Len(ActivityBefore(sheets))) = ActivityBefore(sheets)
        /\ LET logged == sheets'.LoginActivity[Len(sheets'.LoginActivity)]
           IN  /\ logged[2] = Or(Get(call'.body, "email"), Str(<<>>))
               /\ logged[6] = Text(IF response'.success THEN "success" ELSE "failed")
               /\ ~response'.success => logged[7] = Text(response'.message)]_vars

(***************************************************************************)
(* C21.  After any sequence of create operations no two records of the     *)
(* store have the same identifier, and the identifier the table passes to  *)
(* a status update, for each row it shows, is the identifier of exactly    *)
(* one record.  Fails twice: the identifier of a created record is 'DISP'  *)
(* and the millisecond of its creation, so two creations within one        *)
(* millisecond share it; and the table passes supplierId + index, which is *)
(* the identifier of no record.                                            *)
(***************************************************************************)
RecordsWithId(store, id) == {k \in 1..Len(store) : store[k].id = id}

C21_IdentifiersDesignateOneRecord ==
    /\ \A i, j \in 1..Len(MOCK_DISPUTES) :
          i # j => MOCK_DISPUTES[i].id # MOCK_DISPUTES[j].id
    /\ \A index \in 1..Len(MOCK_DISPUTES) :
          Cardinality(RecordsWithId(MOCK_DISPUTES, TableTargetId(MOCK_DISPUTES, index))) = 1

(***************************************************************************)
(* C22.  Over any sequence of create and updateStatus operations a         *)
(* record's submissionDate keeps the value it was created with, which is   *)
(* the date of the creation; a successful updateStatus leaves the length   *)
(* and the order of the store as they were, changes no record but the      *)
(* first one with the given id, and changes of that record nothing but     *)
(* status and lastUpdateDate.                                              *)
(***************************************************************************)
SameBut(a, b, fields) == \A f \in DOMAIN a \ fields : a[f] = b[f]

C22_UpdateChangesStatusAndDateOnly ==
    [][/\ call'.op = "createDispute" =>
            /\ Tail(MOCK_DISPUTES') = MOCK_DISPUTES
            /\ MOCK_DISPUTES'[1].submissionDate = TodayString(clock')
       /\ call'.op # "createDispute" =>
            /\ Len(MOCK_DISPUTES') = Len(MOCK_DISPUTES)
            /\ \A k \in 1..Len(MOCK_DISPUTES) :
                  MOCK_DISPUTES'[k].submissionDate = MOCK_DISPUTES[k].submissionDate
       /\ (call'.op = "updateDisputeStatus" /\ ret' = TRUE) =>
            \A k \in 1..Len(MOCK_DISPUTES) :
                /\ DOMAIN MOCK_DISPUTES'[k] = DOMAIN MOCK_DISPUTES[k]
                /\ SameBut(MOCK_DISPUTES'[k], MOCK_DISPUTES[k], {"status", "lastUpdateDate"})
                /\ k # FindIndex(MOCK_DISPUTES, call'.disputeId)
                      => MOCK_DISPUTES'[k] = MOCK_DISPUTES[k]]_vars

\* A record created on day 17 has been set to Resolved on day 18: its
\* submission date is still day 17
C22_Witness ==
    /\ call.op = "updateDisputeStatus"
    /\ call.impl = "demo"
    /\ ret = TRUE
    /\ Len(MOCK_DISPUTES) = Len(MockData) + 1
    /\ call.disputeId = MOCK_DISPUTES[1].id
    /\ MOCK_DISPUTES[1].status = "Resolved"
    /\ MOCK_DISPUTES[1].submissionDate = Day(17)
    /\ MOCK_DISPUTES[1].lastUpdateDate = Day(18)

(***************************************************************************)
(* C23.  In every state reached from the built-in data by create and       *)
(* updateStatus operations of the demo service, under a clock that never   *)
(* decreases and starts on the latest built-in date, every record has      *)
(* lastUpdateDate >= submissionDate, and every successful create or        *)
(* updateStatus leaves the record it made or changed with the current date *)
(* as its lastUpdateDate.                                                  *)
(***************************************************************************)
LastUpdateNotBeforeSubmission ==
    \A k \in 1..Len(MOCK_DISPUTES) :
        DateTime(MOCK_DISPUTES[k].lastUpdateDate) >= DateTime(MOCK_DISPUTES[k].submissionDate)

C23_LastUpdateRefreshed ==
    /\ []LastUpdateNotBeforeSubmission
    /\ [][/\ clock' >= clock
          /\ (call'.op = "createDispute" /\ ret' = TRUE)
                => MOCK_DISPUTES'[1].lastUpdateDate = TodayString(clock')
          /\ (call'.op = "updateDisputeStatus" /\ call'.impl = "demo" /\ ret' = TRUE)
                => MOCK_DISPUTES'[FindIndex(MOCK_DISPUTES, call'.disputeId)].lastUpdateDate
                       = TodayString(clock')]_vars

\* The first built-in record, submitted on day 10 and last updated on day
\* 15, has been updated on day 18 after a record had been created
C23_Witness ==
    /\ call.op = "updateDisputeStatus"
    /\ call.impl = "demo"
    /\ call.disputeId = "1"
    /\ ret = TRUE
    /\ Len(MOCK_DISPUTES) = Len(MockData) + 1
    /\ MOCK_DISPUTES[2].id = "1"
    /\ MOCK_DISPUTES[2].submissionDate = Day(10)
    /\ MOCK_DISPUTES[2].lastUpdateDate = Day(18)

(***************************************************************************)
(* C24.  The record built of an accepted create-dispute request carries    *)
(* the same value in disputeDescription and in reasonForDispute.  Fails:   *)
(* each field takes its own value of the body first and the other's only   *)
(* when its own is missing, so a body that holds two different texts is    *)
(* written with two different texts.                                       *)
(***************************************************************************)
C24_NarrativeFieldsInSync ==
    normalized.kind = "disputeData" =>
        normalized.value.disputeDescription = normalized.value.reasonForDispute

(***************************************************************************)
(* C25.  The combined value 'name (email)' that createDispute writes into  *)
(* the Supplier field is normalized back to the same name and email, for   *)
(* every plain name (no bracket, no address, no surrounding space) and     *)
(* every email of the form local@domain.  Fails: normalizeRow looks for    *)
(* local@domain followed by a dot and two letters or more, so the address  *)
(* of a demo account, supplier@demo, is not found: the name stays the      *)
(* whole field and the email is empty.                                     *)
(***************************************************************************)
C25_CombinedSupplierRoundTrip ==
    normalized.kind = "normalizeRow" =>
        \A name \in PlainNames, email \in SupplierEmails :
            row = WebportalBody(Payload(name, email), clock) =>
                /\ normalized.value.supplierName = Str(name)
                /\ normalized.value.supplierEmail = Str(email)

(***************************************************************************)
(* C26.  If some accepted key is in the row under its exact name with a    *)
(* non-empty value, getFirst returns the value of the first such key of    *)
(* the list, whatever keys of the row match an earlier accepted key in     *)
(* case only.  Fails: the keys are probed one at a time, each by its exact *)
(* name and then without regard to case, before the next is looked at, so  *)
(* a key of the row that matches the first accepted key in case only is    *)
(* returned ahead of the exact match of the second.                        *)
(***************************************************************************)
ExactHits(r, keys) == {i \in 1..Len(keys) : NonEmpty(Get(r, keys[i]))}

C26_ExactKeysBeforeCaseInsensitive ==
    (/\ normalized.kind = "getFirst"
     /\ ~IsNullish(row)
     /\ ExactHits(row, normalized.keys) # {})
        => normalized.value = Get(row, normalized.keys[SetMin(ExactHits(row, normalized.keys))])

(***************************************************************************)
(* C27.  Whenever the table reports 'Status Updated' after a status was    *)
(* picked on a row, the store record shown on that row has the picked      *)
(* status and no other record was changed; when the update does not reach  *)
(* that record the table reports 'Update Failed'.  Fails: the table passes *)
(* supplierId + index as the id, which no record has, and the dashboard    *)
(* does not look at what updateDisputeStatus returns, so 'Status Updated'  *)
(* is reported with the store as it was.                                   *)
(***************************************************************************)
ShownRecord(index) == FindIndex(MOCK_DISPUTES, disputes[index].id)

C27_ToastTellsWhatHappened ==
    [][call'.op = "handleStatusChange" =>
        LET target == ShownRecord(call'.index)
            reached == /\ target # 0
                       /\ MOCK_DISPUTES'[target].status = call'.status
                       /\ \A k \in 1..Len(MOCK_DISPUTES) :
                             k # target => MOCK_DISPUTES'[k] = MOCK_DISPUTES[k]
        IN  /\ ret' = "Status Updated" => reached
            /\ ~reached => ret' = "Update Failed"]_vars

(***************************************************************************)
(* C28.  A create request that a client builds of a filled form, the body  *)
(* of Webportal.ts outside demo mode or the form data of NewDisputeForm    *)
(* posted by GoogleSheetsAPI.createDispute, passes the endpoint's          *)
(* validation and, when neither the transport nor the store fails, ends    *)
(* with a row appended to every sheet.  Fails: the endpoint reads          *)
(* orderItemId, trackingId, supplierName and supplierEmail, and the bodies *)
(* name their fields OrderItemID, TrackingID and Supplier, so every such   *)
(* request is refused with 'orderItemId is required'.                      *)
(***************************************************************************)
FromFilledForm ==
    \/ call'.op = "createDisputeOfWebportal"
    \/ /\ call'.op = "createDisputeOfSheets"
       /\ Has(call'.dispute, "OrderItemID")

C28_FilledFormEndsWithRow ==
    [][(FromFilledForm /\ call'.ok /\ call'.fault = "none") =>
        /\ response'.success = TRUE
        /\ \A name \in Range(DestinationSheets) : Len(sheets'[name]) = Len(sheets[name]) + 1]_vars

(***************************************************************************)
(* C29.  In both dashboards isLoading is true in every state in which a    *)
(* loadDisputes call is outstanding, whatever started the loads; once the  *)
(* dashboard is mounted and no load is outstanding isLoading is false; and *)
(* a load that fails leaves the displayed collection as it was.  Fails:    *)
(* isLoading is one flag that every load sets on its start and clears on   *)
(* its end, so of two loads in flight the first to settle clears it while  *)
(* the other is outstanding, and the Refresh control is enabled again.     *)
(***************************************************************************)
C29_LoadingWhileLoadOutstanding ==
    /\ [](loads > 0 => dashLoading)
    /\ []((loads = 0 /\ call.op # "init") => ~dashLoading)
    /\ [][(call'.op = "loadSettles" /\ ~call'.ok) => disputes' = disputes]_vars

(***************************************************************************)
(* C30.  Once the session has been restored, and after login and logout    *)
(* calls in any order, a login settling while others are in flight or      *)
(* after a logout, the stored entry markaz_user exists exactly when user   *)
(* is not null and then holds that identity, without a password;           *)
(* isAuthenticated is true exactly when user is not null; a login that     *)
(* fails leaves user and the entry as they were, and logout clears both.   *)
(***************************************************************************)
C30_SessionMatchesUser ==
    /\ [](call.op # "init" =>
            /\ (markaz_user # NoUser) <=> (user # NoUser)
            /\ user # NoUser => (markaz_user = user /\ "password" \notin DOMAIN markaz_user)
            /\ isAuthenticated(user) <=> (user # NoUser))
    /\ [][/\ (call'.op = "loginSettles" /\ ~call'.ok)
                => (user' = user /\ markaz_user' = markaz_user)
          /\ call'.op = "logout" => (user' = NoUser /\ markaz_user' = NoUser)]_vars

\* The supplier's login has settled and stored the supplier while another
\* login is in flight
C30_Witness ==
    /\ call.op = "loginSettles"
    /\ call.ok
    /\ user = WithoutPassword(DEMO_USERS[2])
    /\ markaz_user = user
    /\ logins # <<>>

====
